---- MODULE Spec2Model ----
(***************************************************************************)
(* State-machine model of the two CosmWasm contracts of the repository:    *)
(*   contracts/assetlist  - permissioned dual-index catalog of listings    *)
(*   contracts/factory    - capped-supply ledger of one tokenfactory denom *)
(* Every invocation is one action: it runs the whole handler on the        *)
(* storage, and the storage keeps the handler's writes only when the       *)
(* handler returned Ok.  `last` records the invocation that has just run   *)
(* and its result until the host has returned it to the caller.            *)
(***************************************************************************)
EXTENDS Integers, Sequences, FiniteSets, TLC

VARIABLES
    CONFIG,          \* assetlist state.rs: Item<Config>
    DENOM_MAP,       \* assetlist state.rs: Map<String, Listing>, denom -> listing
    SYMBOL_MAP,      \* assetlist state.rs: Map<String, String>, symbol -> denom
    ADMIN,           \* factory state.rs: Item<Addr>
    MAX_SUPPLY,      \* factory state.rs: Item<u128>, 0 = uncapped
    TOTAL_MINTED,    \* factory state.rs: Item<u128>
    overflow_checks, \* whether the build's u128 arithmetic panics on overflow
    host,            \* the chain's modules: authority, supply and balance of the denom
    last             \* the invocation that has just run, Idle when none

vars == <<CONFIG, DENOM_MAP, SYMBOL_MAP, ADMIN, MAX_SUPPLY, TOTAL_MINTED,
          overflow_checks, host, last>>

catalog_vars == <<CONFIG, DENOM_MAP, SYMBOL_MAP>>

ledger_vars == <<ADMIN, MAX_SUPPLY, TOTAL_MINTED, overflow_checks>>

host_vars == <<host>>

----------------------------------------------------------------------------
(* Bounds of the model *)

\* longest batch of an Add / Update / Remove message
MaxBatch == 2

\* longest batch of a Mint / Send message
MaxReceivers == 3

\* largest value of the unsigned integer type standing for Uint128 / u128
UintMax == 7

\* largest total supply up to which the chain's bank module is followed
MaxIssued == 9

----------------------------------------------------------------------------
(* Rust Option, Vec and Map values *)

None == <<>>

Some(v) == <<v>>

is_some(o) == Len(o) = 1

is_none(o) == Len(o) = 0

unwrap(o) == o[1]

unwrap_or(o, d) == IF Len(o) = 0 THEN d ELSE o[1]

\* Option::or
or(o, p) == IF Len(o) = 0 THEN p ELSE o

\* Vec::contains
contains(v, x) == \E i \in 1..Len(v) : v[i] = x

EmptyMap == [k \in {} |-> TRUE]

\* Map::has
has(m, k) == k \in DOMAIN m

\* Map::save
save(m, k, v) == [x \in (DOMAIN m) \cup {k} |-> IF x = k THEN v ELSE m[x]]

\* Map::remove
remove(m, k) == [x \in (DOMAIN m) \ {k} |-> m[x]]

\* the sequences over S of length at most n
SeqUpTo(S, n) == UNION {[1..k -> S] : k \in 0..n}

\* a handler's Result: Ok, or the error with the key or the position it carries
Ok == [tag |-> "Ok", arg |-> "", index |-> 0]

Err(t, a) == [tag |-> t, arg |-> a, index |-> 0]

ErrAt(t, i) == [tag |-> t, arg |-> "", index |-> i]

----------------------------------------------------------------------------
(* Input universe of the catalog *)

Addrs == {"alice", "bob", "carol"}

\* the account that instantiates the contract
Creator == "alice"

Denoms == {"uion", "uosmo"}

Symbols == {"ION", "OSMO"}

Metadata(symbol, exp, logo, chain) ==
    [symbol |-> symbol, exp |-> exp, logo |-> logo, chain |-> chain]

\* a listing's metadata with every optional field present
FullMeta(s) == Metadata(s, Some(6), Some("logo.png"), Some("osmosis-1"))

\* a listing's metadata with no optional field present
BareMeta(s) == Metadata(s, None, None, None)

Coin(denom, amount) == [denom |-> denom, amount |-> amount]

Config(add_permissioned, remove_permissioned, required_fields, fee, admins, owner) ==
    [add_permissioned |-> add_permissioned,
     remove_permissioned |-> remove_permissioned,
     required_fields |-> required_fields,
     fee |-> fee,
     admins |-> admins,
     owner |-> owner]

Listing(author, metadata) == [author |-> author, metadata |-> metadata]

----------------------------------------------------------------------------
(* contracts/assetlist/src/contract.rs *)

\* deps.api.addr_validate
addr_validate(a) == a \in Addrs

\* check_required_fields that tests the fields in the order of the enum
check_required_fields_enum_order(required_fields, metadata) ==
    LET required == {required_fields[i] : i \in 1..Len(required_fields)} IN
    IF "Exp" \in required /\ metadata.exp = <<>> THEN [tag |-> "MissingField", arg |-> "Exp", index |-> 0]
    ELSE IF "Logo" \in required /\ metadata.logo = <<>> THEN [tag |-> "MissingField", arg |-> "Logo", index |-> 0]
    ELSE IF "Chain" \in required /\ metadata.chain = <<>> THEN [tag |-> "MissingField", arg |-> "Chain", index |-> 0]
    ELSE [tag |-> "Ok", arg |-> "", index |-> 0]

RECURSIVE check_required_fields(_, _)
check_required_fields(required_fields, metadata) ==
    IF required_fields = <<>> THEN Ok
    ELSE LET field == Head(required_fields) IN
         IF field = "Exp" /\ is_none(metadata.exp) THEN Err("MissingField", "Exp")
         ELSE IF field = "Logo" /\ is_none(metadata.logo) THEN Err("MissingField", "Logo")
         ELSE IF field = "Chain" /\ is_none(metadata.chain) THEN Err("MissingField", "Chain")
         ELSE check_required_fields(Tail(required_fields), metadata)

\* fee.iter().find(|coin| coin.denom == denom): index of the first match, 0 if none
RECURSIVE find_fee(_, _, _)
find_fee(fee, denom, i) ==
    IF i > Len(fee) THEN 0
    ELSE IF fee[i].denom = denom THEN i
    ELSE find_fee(fee, denom, i + 1)

\* fee_gate with the sufficiency comparison made strict: the exact fee is refused
fee_gate_exact_refused(funds, fee, admin, n) ==
    IF ~admin /\ is_some(fee) THEN
        IF Len(funds) = 0 THEN Err("MissingFee", "")
        ELSE IF Len(funds) > 1 THEN Err("MultipleFees", "")
        ELSE LET i == find_fee(unwrap(fee), funds[1].denom, 1) IN
             IF i = 0 THEN Err("InvalidFee", "")
             ELSE IF unwrap(fee)[i].amount * n > UintMax THEN Err("Panic", "multiply")
             ELSE IF unwrap(fee)[i].amount * n >= funds[1].amount
                  THEN Err("InsufficientFee", "")
             ELSE Ok
    ELSE Ok

\* fee_gate with the denomination looked up before the coins are counted
fee_gate_lookup_first(funds, fee, admin, n) ==
    IF ~admin /\ is_some(fee) THEN
        IF Len(funds) = 0 THEN Err("MissingFee", "")
        ELSE LET i == find_fee(unwrap(fee), funds[1].denom, 1) IN
             IF i = 0 THEN Err("InvalidFee", "")
             ELSE IF Len(funds) > 1 THEN Err("MultipleFees", "")
             ELSE IF unwrap(fee)[i].amount * n > UintMax THEN Err("Panic", "multiply")
             ELSE IF unwrap(fee)[i].amount * n > funds[1].amount
                  THEN Err("InsufficientFee", "")
             ELSE Ok
    ELSE Ok

\* the fee validation of execute_add_listings; Uint128 multiplication is
\* checked and panics on overflow
fee_gate(funds, fee, admin, n) ==
    IF ~admin /\ is_some(fee) THEN
        IF Len(funds) = 0 THEN Err("MissingFee", "")
        ELSE IF Len(funds) > 1 THEN Err("MultipleFees", "")
        ELSE LET i == find_fee(unwrap(fee), funds[1].denom, 1) IN
             IF i = 0 THEN Err("InvalidFee", "")
             ELSE IF unwrap(fee)[i].amount * n > UintMax THEN Err("Panic", "multiply")
             ELSE IF unwrap(fee)[i].amount * n > funds[1].amount
                  THEN Err("InsufficientFee", "")
             ELSE Ok
    ELSE Ok

\* author of a record written by Add or Update
new_author(sender, admin) == IF admin THEN None ELSE Some(sender)

\* add_loop without the check of the symbol index
RECURSIVE add_loop_no_symbol_check(_, _, _, _, _, _)
add_loop_no_symbol_check(new_listings, sender, admin, required_fields, dm, sm) ==
    IF new_listings = <<>> THEN [res |-> Ok, dm |-> dm, sm |-> sm]
    ELSE LET denom    == Head(new_listings)[1]
             metadata == Head(new_listings)[2]
             chk      == check_required_fields(required_fields, metadata)
         IN  IF has(dm, denom)
                 THEN [res |-> Err("DuplicateListing", denom), dm |-> dm, sm |-> sm]
             ELSE IF chk.tag # "Ok"
                 THEN [res |-> chk, dm |-> dm, sm |-> sm]
             ELSE add_loop_no_symbol_check(Tail(new_listings), sender, admin, required_fields,
                           save(dm, denom, Listing(new_author(sender, admin), metadata)),
                           save(sm, metadata.symbol, denom))

\* add_loop with the symbol index checked before the denom index
RECURSIVE add_loop_symbol_first(_, _, _, _, _, _)
add_loop_symbol_first(new_listings, sender, admin, required_fields, dm, sm) ==
    IF new_listings = <<>> THEN [res |-> Ok, dm |-> dm, sm |-> sm]
    ELSE LET denom    == Head(new_listings)[1]
             metadata == Head(new_listings)[2]
             chk      == check_required_fields(required_fields, metadata)
         IN  IF has(sm, metadata.symbol)
                 THEN [res |-> Err("DuplicateListing", metadata.symbol), dm |-> dm, sm |-> sm]
             ELSE IF has(dm, denom)
                 THEN [res |-> Err("DuplicateListing", denom), dm |-> dm, sm |-> sm]
             ELSE IF chk.tag # "Ok"
                 THEN [res |-> chk, dm |-> dm, sm |-> sm]
             ELSE add_loop_symbol_first(Tail(new_listings), sender, admin, required_fields,
                           save(dm, denom, Listing(new_author(sender, admin), metadata)),
                           save(sm, metadata.symbol, denom))

\* the loop of execute_add_listings over the batch; dm and sm are the two
\* maps as written so far
RECURSIVE add_loop(_, _, _, _, _, _)
add_loop(new_listings, sender, admin, required_fields, dm, sm) ==
    IF new_listings = <<>> THEN [res |-> Ok, dm |-> dm, sm |-> sm]
    ELSE LET denom    == Head(new_listings)[1]
             metadata == Head(new_listings)[2]
             chk      == check_required_fields(required_fields, metadata)
         IN  IF has(dm, denom)
                 THEN [res |-> Err("DuplicateListing", denom), dm |-> dm, sm |-> sm]
             ELSE IF has(sm, metadata.symbol)
                 THEN [res |-> Err("DuplicateListing", metadata.symbol), dm |-> dm, sm |-> sm]
             ELSE IF chk.tag # "Ok"
                 THEN [res |-> chk, dm |-> dm, sm |-> sm]
             ELSE add_loop(Tail(new_listings), sender, admin, required_fields,
                           save(dm, denom, Listing(new_author(sender, admin), metadata)),
                           save(sm, metadata.symbol, denom))

execute_add_listings(sender, funds, fee, admin, permissioned, required_fields, new_listings, dm, sm) ==
    IF permissioned /\ ~admin
        THEN [res |-> Err("AddPermissioned", ""), dm |-> dm, sm |-> sm]
    ELSE LET gate == fee_gate(funds, fee, admin, Len(new_listings)) IN
         IF gate.tag # "Ok" THEN [res |-> gate, dm |-> dm, sm |-> sm]
         ELSE add_loop(new_listings, sender, admin, required_fields, dm, sm)

\* update_loop without the write to the symbol index
RECURSIVE update_loop_no_symbol_save(_, _, _, _, _, _)
update_loop_no_symbol_save(updated_listings, sender, admin, required_fields, dm, sm) ==
    IF updated_listings = <<>> THEN [res |-> Ok, dm |-> dm, sm |-> sm]
    ELSE LET denom    == Head(updated_listings)[1]
             metadata == Head(updated_listings)[2]
             chk      == check_required_fields(required_fields, metadata)
         IN  IF ~has(dm, denom)
                 THEN [res |-> Err("ListingNotFound", denom), dm |-> dm, sm |-> sm]
             ELSE IF unwrap_or(dm[denom].author, "") # sender /\ ~admin
                 THEN [res |-> Err("Unauthorized", ""), dm |-> dm, sm |-> sm]
             ELSE IF dm[denom].metadata.symbol # metadata.symbol
                     /\ has(sm, metadata.symbol)
                 THEN [res |-> Err("DuplicateListing", metadata.symbol), dm |-> dm, sm |-> sm]
             ELSE IF chk.tag # "Ok"
                 THEN [res |-> chk, dm |-> dm, sm |-> sm]
             ELSE update_loop_no_symbol_save(Tail(updated_listings), sender, admin,
                              required_fields,
                              save(dm, denom, Listing(new_author(sender, admin), metadata)),
                              sm)

\* the loop of execute_update_listings over the batch
RECURSIVE update_loop(_, _, _, _, _, _)
update_loop(updated_listings, sender, admin, required_fields, dm, sm) ==
    IF updated_listings = <<>> THEN [res |-> Ok, dm |-> dm, sm |-> sm]
    ELSE LET denom    == Head(updated_listings)[1]
             metadata == Head(updated_listings)[2]
             chk      == check_required_fields(required_fields, metadata)
         IN  IF ~has(dm, denom)
                 THEN [res |-> Err("ListingNotFound", denom), dm |-> dm, sm |-> sm]
             ELSE IF unwrap_or(dm[denom].author, "") # sender /\ ~admin
                 THEN [res |-> Err("Unauthorized", ""), dm |-> dm, sm |-> sm]
             ELSE IF dm[denom].metadata.symbol # metadata.symbol
                     /\ has(sm, metadata.symbol)
                 THEN [res |-> Err("DuplicateListing", metadata.symbol), dm |-> dm, sm |-> sm]
             ELSE IF chk.tag # "Ok"
                 THEN [res |-> chk, dm |-> dm, sm |-> sm]
             ELSE update_loop(Tail(updated_listings), sender, admin, required_fields,
                              save(dm, denom, Listing(new_author(sender, admin), metadata)),
                              save(sm, metadata.symbol, denom))

\* execute_update_listings without the permission flag
execute_update_listings_no_gate(sender, admin, permissioned, required_fields, updated_listings, dm, sm) ==
    update_loop(updated_listings, sender, admin, required_fields, dm, sm)

execute_update_listings(sender, admin, permissioned, required_fields, updated_listings, dm, sm) ==
    IF permissioned /\ ~admin
        THEN [res |-> Err("RemovePermissioned", ""), dm |-> dm, sm |-> sm]
    ELSE update_loop(updated_listings, sender, admin, required_fields, dm, sm)

\* remove_loop without the check of the listing's author
RECURSIVE remove_loop_no_author_check(_, _, _, _, _)
remove_loop_no_author_check(denoms, sender, admin, dm, sm) ==
    IF denoms = <<>> THEN [res |-> Ok, dm |-> dm, sm |-> sm]
    ELSE LET denom == Head(denoms) IN
         IF ~has(dm, denom)
             THEN [res |-> Err("ListingNotFound", denom), dm |-> dm, sm |-> sm]
         ELSE remove_loop_no_author_check(Tail(denoms), sender, admin,
                          remove(dm, denom),
                          remove(sm, dm[denom].metadata.symbol))

\* remove_loop that leaves the symbol index as it is
RECURSIVE remove_loop_keeps_symbol(_, _, _, _, _)
remove_loop_keeps_symbol(denoms, sender, admin, dm, sm) ==
    IF denoms = <<>> THEN [res |-> Ok, dm |-> dm, sm |-> sm]
    ELSE LET denom == Head(denoms) IN
         IF ~has(dm, denom)
             THEN [res |-> Err("ListingNotFound", denom), dm |-> dm, sm |-> sm]
         ELSE IF unwrap_or(dm[denom].author, "") # sender /\ ~admin
             THEN [res |-> Err("Unauthorized", ""), dm |-> dm, sm |-> sm]
         ELSE remove_loop_keeps_symbol(Tail(denoms), sender, admin,
                                       remove(dm, denom), sm)

\* the loop of execute_remove_listings over the batch
RECURSIVE remove_loop(_, _, _, _, _)
remove_loop(denoms, sender, admin, dm, sm) ==
    IF denoms = <<>> THEN [res |-> Ok, dm |-> dm, sm |-> sm]
    ELSE LET denom == Head(denoms) IN
         IF ~has(dm, denom)
             THEN [res |-> Err("ListingNotFound", denom), dm |-> dm, sm |-> sm]
         ELSE IF unwrap_or(dm[denom].author, "") # sender /\ ~admin
             THEN [res |-> Err("Unauthorized", ""), dm |-> dm, sm |-> sm]
         ELSE remove_loop(Tail(denoms), sender, admin,
                          remove(dm, denom),
                          remove(sm, dm[denom].metadata.symbol))

execute_remove_listings(sender, admin, permissioned, denoms, dm, sm) ==
    IF permissioned /\ ~admin
        THEN [res |-> Err("RemovePermissioned", ""), dm |-> dm, sm |-> sm]
    ELSE remove_loop(denoms, sender, admin, dm, sm)

\* every address of the list passes addr_validate
all_valid(addresses) == \A i \in 1..Len(addresses) : addr_validate(addresses[i])

\* execute_update_config that lets every stored admin update the config
execute_update_config_any_admin(sender, old_config, new_config) ==
    IF sender # unwrap(old_config.owner)
       /\ ~contains(unwrap_or(old_config.admins, <<>>), sender)
        THEN [res |-> Err("NotOwner", ""), config |-> old_config]
    ELSE IF is_some(new_config.owner) /\ ~addr_validate(unwrap(new_config.owner))
        THEN [res |-> Err("Std", "addr_validate"), config |-> old_config]
    ELSE IF is_some(new_config.admins) /\ ~all_valid(unwrap(new_config.admins))
        THEN [res |-> Err("Std", "addr_validate"), config |-> old_config]
    ELSE LET owner  == or(new_config.owner, old_config.owner)
             admins == IF is_some(new_config.admins)
                       THEN Some(Append(unwrap(new_config.admins), unwrap(owner)))
                       ELSE old_config.admins
         IN  [res |-> Ok,
              config |-> Config(or(new_config.add_permissioned, old_config.add_permissioned),
                                or(new_config.remove_permissioned, old_config.remove_permissioned),
                                or(new_config.required_fields, old_config.required_fields),
                                or(new_config.fee, old_config.fee),
                                admins,
                                owner)]

\* execute_update_config that stores the payload's fee schedule as given,
\* and a given admin list on top of the previous one
execute_update_config_no_retention(sender, old_config, new_config) ==
    IF sender # unwrap(old_config.owner)
        THEN [res |-> Err("NotOwner", ""), config |-> old_config]
    ELSE IF is_some(new_config.owner) /\ ~addr_validate(unwrap(new_config.owner))
        THEN [res |-> Err("Std", "addr_validate"), config |-> old_config]
    ELSE IF is_some(new_config.admins) /\ ~all_valid(unwrap(new_config.admins))
        THEN [res |-> Err("Std", "addr_validate"), config |-> old_config]
    ELSE LET owner  == or(new_config.owner, old_config.owner)
             admins == IF is_some(new_config.admins)
                       THEN Some(unwrap_or(old_config.admins, <<>>)
                                 \o Append(unwrap(new_config.admins), unwrap(owner)))
                       ELSE old_config.admins
         IN  [res |-> Ok,
              config |-> Config(or(new_config.add_permissioned, old_config.add_permissioned),
                                or(new_config.remove_permissioned, old_config.remove_permissioned),
                                or(new_config.required_fields, old_config.required_fields),
                                new_config.fee,
                                admins,
                                owner)]

execute_update_config(sender, old_config, new_config) ==
    IF sender # unwrap(old_config.owner)
        THEN [res |-> Err("NotOwner", ""), config |-> old_config]
    ELSE IF is_some(new_config.owner) /\ ~addr_validate(unwrap(new_config.owner))
        THEN [res |-> Err("Std", "addr_validate"), config |-> old_config]
    ELSE IF is_some(new_config.admins) /\ ~all_valid(unwrap(new_config.admins))
        THEN [res |-> Err("Std", "addr_validate"), config |-> old_config]
    ELSE LET owner  == or(new_config.owner, old_config.owner)
             admins == IF is_some(new_config.admins)
                       THEN Some(Append(unwrap(new_config.admins), unwrap(owner)))
                       ELSE old_config.admins
         IN  [res |-> Ok,
              config |-> Config(or(new_config.add_permissioned, old_config.add_permissioned),
                                or(new_config.remove_permissioned, old_config.remove_permissioned),
                                or(new_config.required_fields, old_config.required_fields),
                                or(new_config.fee, old_config.fee),
                                admins,
                                owner)]

\* instantiate: the Config saved for an InstantiateMsg sent by info_sender
instantiate(info_sender, msg) ==
    Config(msg.add_permissioned,
           msg.remove_permissioned,
           msg.required_fields,
           msg.fee,
           Some(Append(unwrap_or(msg.admins, <<>>), info_sender)),
           Some(unwrap_or(msg.owner, info_sender)))

\* execute: the admin flag handed to the listing handlers
sender_is_admin(config, sender) == contains(unwrap_or(config.admins, <<>>), sender)

\* Pagination for queries
MAX_PAGE_LIMIT == 250

\* byte-lexicographic order of two keys, each the sequence of its bytes:
\* the order in which the storage iterates a Map<String, _>
RECURSIVE key_less(_, _)
key_less(a, b) ==
    IF a = <<>> THEN b # <<>>
    ELSE IF b = <<>> THEN FALSE
    ELSE IF Head(a) < Head(b) THEN TRUE
    ELSE IF Head(a) > Head(b) THEN FALSE
    ELSE key_less(Tail(a), Tail(b))

\* Bound::exclusive: the keys of the map that the range iterates
range_keys(dm, start) ==
    IF is_none(start) THEN DOMAIN dm
    ELSE {k \in DOMAIN dm : key_less(unwrap(start), k)}

\* Order::Ascending and take(n): the iterator is pulled n times at most, and
\* each pull yields the least remaining key; n pulls are the first n \div 2
\* pulls followed by the others on what those have left
RECURSIVE take_ascending(_, _, _)
take_ascending(dm, keys, n) ==
    IF n = 0 \/ keys = {} THEN <<>>
    ELSE IF n = 1
    THEN LET k == CHOOSE k \in keys : \A j \in keys : ~key_less(j, k)
         IN  <<<<k, dm[k].metadata>>>>
    ELSE LET first == take_ascending(dm, keys, n \div 2)
             pulled == {first[i][1] : i \in 1..Len(first)}
         IN  first \o take_ascending(dm, keys \ pulled, n - n \div 2)

\* take_ascending over a range that starts at the cursor itself
query_all_listings_inclusive(dm, start_after, limit) ==
    LET n == IF unwrap_or(limit, MAX_PAGE_LIMIT) < MAX_PAGE_LIMIT
             THEN unwrap_or(limit, MAX_PAGE_LIMIT) ELSE MAX_PAGE_LIMIT
        keys == range_keys(dm, start_after)
                  \cup (IF is_some(start_after) THEN {unwrap(start_after)} \cap DOMAIN dm
                        ELSE {})
    IN  take_ascending(dm, keys, n)

\* query_all_listings without the clamp of the limit to MAX_PAGE_LIMIT
query_all_listings_no_clamp(dm, start_after, limit) ==
    LET n == IF is_some(limit) THEN unwrap(limit) ELSE MAX_PAGE_LIMIT
    IN  take_ascending(dm, range_keys(dm, start_after), n)

query_all_listings(dm, start_after, limit) ==
    LET n == IF unwrap_or(limit, MAX_PAGE_LIMIT) < MAX_PAGE_LIMIT
             THEN unwrap_or(limit, MAX_PAGE_LIMIT) ELSE MAX_PAGE_LIMIT
    IN  take_ascending(dm, range_keys(dm, start_after), n)

RECURSIVE query_listings_by_denom(_, _, _)
query_listings_by_denom(denoms, dm, data) ==
    IF denoms = <<>> THEN [res |-> Ok, data |-> data]
    ELSE LET denom == Head(denoms) IN
         IF ~has(dm, denom)
             THEN [res |-> Err("GenericErr", denom), data |-> <<>>]
         ELSE query_listings_by_denom(Tail(denoms), dm,
                  Append(data, <<denom, dm[denom].metadata>>))

RECURSIVE query_listings_by_symbol(_, _, _, _)
query_listings_by_symbol(symbols, dm, sm, data) ==
    IF symbols = <<>> THEN [res |-> Ok, data |-> data]
    ELSE LET symbol == Head(symbols) IN
         IF ~has(sm, symbol)
             THEN [res |-> Err("GenericErr", symbol), data |-> <<>>]
         ELSE IF ~has(dm, sm[symbol])
             THEN [res |-> Err("GenericErr", symbol), data |-> <<>>]
         ELSE query_listings_by_symbol(Tail(symbols), dm, sm,
                  Append(data, <<sm[symbol], dm[sm[symbol]].metadata>>))

\* host_commit that keeps the writes of a failed invocation
host_commit_keeps_writes(res, written, before) == written

\* the storage after the invocation: the host keeps the handler's writes
\* when it returned Ok and discards them when it returned an error
host_commit(res, written, before) == IF res.tag = "Ok" THEN written ELSE before

----------------------------------------------------------------------------
(* contracts/factory/src/contract.rs *)

\* the address of the ledger contract itself
Contract == "factory"

\* an address that fails addr_validate
BadAddr == "!"

Receiver(address, amount) == [address |-> address, amount |-> amount]

\* the messages a Response carries to the host's tokenfactory and bank modules
MsgCreateDenom == [type |-> "MsgCreateDenom", to |-> "", amount |-> 0]

MsgMint(to, amount) == [type |-> "MsgMint", to |-> to, amount |-> amount]

MsgBurn(amount) == [type |-> "MsgBurn", to |-> Contract, amount |-> amount]

BankSend(to, amount) == [type |-> "BankMsg::Send", to |-> to, amount |-> amount]

\* bech32 encoding of twenty zero bytes under the contract's prefix
null_address == "null"

MsgChangeAdmin == [type |-> "MsgChangeAdmin", to |-> null_address, amount |-> 0]

\* a + b on u128: an overflow panics when the build checks overflow and
\* wraps around when it does not
u128_add(a, b, checks) ==
    IF a + b <= UintMax THEN [panic |-> FALSE, value |-> a + b]
    ELSE IF checks THEN [panic |-> TRUE, value |-> 0]
    ELSE [panic |-> FALSE, value |-> (a + b) % (UintMax + 1)]

\* the result of a ledger handler: the Result, the two stored numbers as
\* written, and the messages of the Response
LedgerOut(res, max_supply, total_minted, msgs) ==
    [res |-> res, max_supply |-> max_supply, total_minted |-> total_minted,
     msgs |-> msgs]

\* mint_loop that reports the position of an invalid item counted from one
RECURSIVE mint_loop_one_based(_, _, _, _, _)
mint_loop_one_based(receivers, i, total_to_mint, msgs, checks) ==
    IF i >= Len(receivers) THEN [res |-> Ok, total_to_mint |-> total_to_mint, msgs |-> msgs]
    ELSE LET amount  == receivers[i + 1].amount
             address == receivers[i + 1].address
             sum     == u128_add(total_to_mint, amount, checks)
         IN  IF amount = 0 \/ ~addr_validate(address)
                 THEN [res |-> ErrAt("MintInvalid", i + 1), total_to_mint |-> total_to_mint,
                       msgs |-> msgs]
             ELSE IF sum.panic
                 THEN [res |-> Err("Panic", "add"), total_to_mint |-> total_to_mint,
                       msgs |-> msgs]
             ELSE mint_loop_one_based(receivers, i + 1, sum.value,
                                      Append(msgs, MsgMint(address, amount)), checks)

\* the loop of execute_mint over the receivers, from position i (zero-based)
\* with total_to_mint and msgs as accumulated so far
RECURSIVE mint_loop(_, _, _, _, _)
mint_loop(receivers, i, total_to_mint, msgs, checks) ==
    IF i >= Len(receivers) THEN [res |-> Ok, total_to_mint |-> total_to_mint, msgs |-> msgs]
    ELSE LET amount  == receivers[i + 1].amount
             address == receivers[i + 1].address
             sum     == u128_add(total_to_mint, amount, checks)
         IN  IF amount = 0 \/ ~addr_validate(address)
                 THEN [res |-> ErrAt("MintInvalid", i), total_to_mint |-> total_to_mint,
                       msgs |-> msgs]
             ELSE IF sum.panic
                 THEN [res |-> Err("Panic", "add"), total_to_mint |-> total_to_mint,
                       msgs |-> msgs]
             ELSE mint_loop(receivers, i + 1, sum.value,
                            Append(msgs, MsgMint(address, amount)), checks)

\* execute_mint without the comparison against max_supply
execute_mint_no_cap(receivers, max_supply, total_minted, checks) ==
    LET loop == mint_loop(receivers, 0, 0, <<>>, checks)
        sum  == u128_add(loop.total_to_mint, total_minted, checks)
    IN  IF loop.res.tag # "Ok" THEN LedgerOut(loop.res, max_supply, total_minted, <<>>)
        ELSE IF sum.panic THEN LedgerOut(Err("Panic", "add"), max_supply, total_minted, <<>>)
        ELSE LedgerOut(Ok, max_supply, sum.value, loop.msgs)

execute_mint(receivers, max_supply, total_minted, checks) ==
    LET loop == mint_loop(receivers, 0, 0, <<>>, checks)
        sum  == u128_add(loop.total_to_mint, total_minted, checks)
    IN  IF loop.res.tag # "Ok" THEN LedgerOut(loop.res, max_supply, total_minted, <<>>)
        ELSE IF sum.panic THEN LedgerOut(Err("Panic", "add"), max_supply, total_minted, <<>>)
        ELSE IF max_supply < sum.value /\ max_supply # 0
            THEN LedgerOut(Err("SupplyCap", ""), max_supply, total_minted, <<>>)
        ELSE LedgerOut(Ok, max_supply, sum.value, loop.msgs)

\* execute_burn that sends the amount to the null address instead of
\* asking the tokenfactory module to burn it
execute_burn_by_send(burn_amount, max_supply, total_minted) ==
    LedgerOut(Ok, max_supply, total_minted, <<BankSend(null_address, burn_amount)>>)

execute_burn(burn_amount, max_supply, total_minted) ==
    LedgerOut(Ok, max_supply, total_minted, <<MsgBurn(burn_amount)>>)

\* the loop of execute_transfer over the messages, from position i (zero-based)
\* with total_to_transfer and msgs as accumulated so far; the Uint128
\* addition at the end of each round is checked and panics on overflow
RECURSIVE transfer_loop(_, _, _, _)
transfer_loop(messages, i, total_to_transfer, msgs) ==
    IF i >= Len(messages) THEN [res |-> Ok, msgs |-> msgs]
    ELSE LET amount  == messages[i + 1].amount
             address == messages[i + 1].address
         IN  IF amount = 0 \/ ~addr_validate(address)
                 THEN [res |-> ErrAt("TransferInvalid", i), msgs |-> msgs]
             ELSE IF total_to_transfer + amount > UintMax
                 THEN [res |-> Err("Panic", "add"), msgs |-> msgs]
             ELSE transfer_loop(messages, i + 1, total_to_transfer + amount,
                                Append(msgs, BankSend(address, amount)))

execute_transfer(messages, max_supply, total_minted) ==
    LET loop == transfer_loop(messages, 0, 0, <<>>) IN
    IF loop.res.tag # "Ok" THEN LedgerOut(loop.res, max_supply, total_minted, <<>>)
    ELSE LedgerOut(Ok, max_supply, total_minted, loop.msgs)

\* execute_revoke that names the contract itself as the new admin
execute_revoke_to_self(max_supply, total_minted) ==
    LedgerOut(Ok, max_supply, total_minted,
              <<[type |-> "MsgChangeAdmin", to |-> Contract, amount |-> 0]>>)

execute_revoke(max_supply, total_minted) ==
    LedgerOut(Ok, max_supply, total_minted, <<MsgChangeAdmin>>)

\* execute_update_supply that also refuses a new maximum equal to total_minted
execute_update_supply_strict(new_max, max_supply, total_minted) ==
    IF new_max <= total_minted /\ new_max # 0
        THEN LedgerOut(Err("CurrentSupply", ""), max_supply, total_minted, <<>>)
    ELSE LedgerOut(Ok, new_max, total_minted, <<>>)

execute_update_supply(new_max, max_supply, total_minted) ==
    IF new_max < total_minted /\ new_max # 0
        THEN LedgerOut(Err("CurrentSupply", ""), max_supply, total_minted, <<>>)
    ELSE LedgerOut(Ok, new_max, total_minted, <<>>)

\* factory_execute without the comparison of the sender with the stored admin
factory_execute_no_auth(sender, msg, admin, max_supply, total_minted, checks) ==
    IF msg.type = "Mint" THEN execute_mint(msg.arg, max_supply, total_minted, checks)
    ELSE IF msg.type = "Burn" THEN execute_burn(msg.arg, max_supply, total_minted)
    ELSE IF msg.type = "Send" THEN execute_transfer(msg.arg, max_supply, total_minted)
    ELSE IF msg.type = "UpdateSupply"
        THEN execute_update_supply(msg.arg, max_supply, total_minted)
    ELSE execute_revoke(max_supply, total_minted)

\* query_mintable: the MintableResponse for the stored numbers and the
\* denom's authority as the tokenfactory module reports it
query_mintable(max_supply, total_minted, authority) ==
    [cap_reached |-> max_supply # 0 /\ total_minted = max_supply,
     revoked     |-> authority # Contract]

\* execute of the factory contract: only the stored admin gets to a handler
factory_execute(sender, msg, admin, max_supply, total_minted, checks) ==
    IF sender # admin THEN LedgerOut(Err("Unauthorized", ""), max_supply, total_minted, <<>>)
    ELSE IF msg.type = "Mint" THEN execute_mint(msg.arg, max_supply, total_minted, checks)
    ELSE IF msg.type = "Burn" THEN execute_burn(msg.arg, max_supply, total_minted)
    ELSE IF msg.type = "Send" THEN execute_transfer(msg.arg, max_supply, total_minted)
    ELSE IF msg.type = "UpdateSupply"
        THEN execute_update_supply(msg.arg, max_supply, total_minted)
    ELSE execute_revoke(max_supply, total_minted)

\* factory_instantiate that treats a max_supply of 0 as a cap of zero
factory_instantiate_zero_cap(info_sender, msg) ==
    LET admin          == unwrap_or(msg.admin, info_sender)
        initial_supply == unwrap_or(msg.initial_supply, 0)
        max_supply     == unwrap_or(msg.max_supply, 0)
    IN  IF ~addr_validate(admin)
            THEN [res |-> Err("Std", "addr_validate"), admin |-> admin,
                  max_supply |-> 0, total_minted |-> 0, msgs |-> <<>>]
        ELSE IF initial_supply > max_supply
            THEN [res |-> Err("SupplyCap", ""), admin |-> admin,
                  max_supply |-> 0, total_minted |-> 0, msgs |-> <<>>]
        ELSE [res |-> Ok, admin |-> admin,
              max_supply |-> max_supply, total_minted |-> initial_supply,
              msgs |-> IF initial_supply = 0 THEN <<MsgCreateDenom>>
                       ELSE <<MsgCreateDenom, MsgMint(Contract, initial_supply)>>]

\* instantiate of the factory contract
factory_instantiate(info_sender, msg) ==
    LET admin          == unwrap_or(msg.admin, info_sender)
        initial_supply == unwrap_or(msg.initial_supply, 0)
        max_supply     == unwrap_or(msg.max_supply, 0)
    IN  IF ~addr_validate(admin)
            THEN [res |-> Err("Std", "addr_validate"), admin |-> admin,
                  max_supply |-> 0, total_minted |-> 0, msgs |-> <<>>]
        ELSE IF initial_supply > max_supply /\ max_supply # 0
            THEN [res |-> Err("SupplyCap", ""), admin |-> admin,
                  max_supply |-> 0, total_minted |-> 0, msgs |-> <<>>]
        ELSE [res |-> Ok, admin |-> admin,
              max_supply |-> max_supply, total_minted |-> initial_supply,
              msgs |-> IF initial_supply = 0 THEN <<MsgCreateDenom>>
                       ELSE <<MsgCreateDenom, MsgMint(Contract, initial_supply)>>]

----------------------------------------------------------------------------
(* The chain's modules that handle the messages of a Response.  The        *)
(* messages are dispatched in order within the transaction of the          *)
(* invocation; when one of them fails the invocation fails as a whole.     *)

\* the chain's record of the denom: its tokenfactory authority, the bank's
\* total supply of it, and the balance of it that the contract holds
Host(authority, supply, held) ==
    [authority |-> authority, supply |-> supply, held |-> held]

\* the denom has not been created
NoDenom == Host("", 0, 0)

\* the outcome of a message or of a list of messages
Dispatched(ok, h) == [ok |-> ok, host |-> h]

\* one message handled by the tokenfactory or bank module; zero_ok says
\* whether the module accepts a burn of amount zero
apply_msg(m, h, zero_ok) ==
    IF m.type = "MsgCreateDenom" THEN
        IF h.authority # "" THEN Dispatched(FALSE, h)
        ELSE Dispatched(TRUE, Host(Contract, 0, 0))
    ELSE IF m.type = "MsgMint" THEN
        IF h.authority # Contract THEN Dispatched(FALSE, h)
        ELSE Dispatched(TRUE, Host(h.authority, h.supply + m.amount,
                                   IF m.to = Contract THEN h.held + m.amount ELSE h.held))
    ELSE IF m.type = "MsgBurn" THEN
        IF h.authority # Contract THEN Dispatched(FALSE, h)
        ELSE IF m.amount > h.held THEN Dispatched(FALSE, h)
        ELSE IF m.amount = 0 /\ ~zero_ok THEN Dispatched(FALSE, h)
        ELSE Dispatched(TRUE, Host(h.authority, h.supply - m.amount, h.held - m.amount))
    ELSE IF m.type = "BankMsg::Send" THEN
        IF m.amount > h.held THEN Dispatched(FALSE, h)
        ELSE Dispatched(TRUE, Host(h.authority, h.supply, h.held - m.amount))
    ELSE \* MsgChangeAdmin
        IF h.authority # Contract THEN Dispatched(FALSE, h)
        ELSE Dispatched(TRUE, Host(m.to, h.supply, h.held))

\* the messages of a Response handled in order, up to the first that fails
RECURSIVE dispatch(_, _, _)
dispatch(msgs, h, zero_ok) ==
    IF msgs = <<>> THEN Dispatched(TRUE, h)
    ELSE LET first == apply_msg(Head(msgs), h, zero_ok) IN
         IF ~first.ok THEN Dispatched(FALSE, h)
         ELSE dispatch(Tail(msgs), first.host, zero_ok)

\* query_bank_supply: the bank's supply of the denom parsed as a u128, 0
\* when the number does not fit
query_bank_supply(h) == IF h.supply > UintMax THEN 0 ELSE h.supply

\* query_info: the TokenInfoResponse; the subtraction is one of native u128
\* numbers, which panics on underflow in a build with overflow checks and
\* wraps around in a build without
query_info(max_supply, total_minted, h, checks) ==
    LET current_supply == query_bank_supply(h) IN
    IF total_minted < current_supply /\ checks
        THEN [res |-> Err("Panic", "subtract"), data |-> <<>>]
    ELSE [res |-> Ok,
          data |-> <<[current_supply |-> current_supply,
                      max_supply |-> max_supply,
                      minted |-> total_minted,
                      burned |-> (total_minted + UintMax + 1 - current_supply)
                                    % (UintMax + 1)]>>]

\* invocation_result of a chain that does not hand the failure of a message
\* back to the invocation
invocation_result_unawaited(res, dispatched) == res

\* the result of the invocation: the handler's error, or the error of the
\* message that failed, or Ok
invocation_result(res, dispatched) ==
    IF res.tag # "Ok" THEN res
    ELSE IF ~dispatched.ok THEN Err("Dispatch", "")
    ELSE Ok

----------------------------------------------------------------------------
(* The invocation record *)

Idle == [op |-> "Idle", sender |-> "", funds |-> <<>>, arg |-> <<>>, res |-> Ok,
         msgs |-> <<>>, config |-> <<>>, dm |-> EmptyMap, sm |-> EmptyMap,
         max_supply |-> 0, total_minted |-> 0, host |-> NoDenom, data |-> <<>>]

\* the invocation that has just run: its message, its result, the messages
\* of its Response and the storage it started from
Call(op, sender, funds, arg, res, msgs) ==
    [op |-> op, sender |-> sender, funds |-> funds, arg |-> arg, res |-> res,
     msgs |-> msgs, config |-> CONFIG, dm |-> DENOM_MAP, sm |-> SYMBOL_MAP,
     max_supply |-> MAX_SUPPLY, total_minted |-> TOTAL_MINTED, host |-> host,
     data |-> <<>>]

\* the query that has just been answered: its message and the data returned
Answer(op, arg, res, data) ==
    [Call(op, "", <<>>, arg, res, <<>>) EXCEPT !.data = data]
----------------------------------------------------------------------------
(* Catalog invocations.  Each action is one execute call of the assetlist   *)
(* contract, with its sender, attached funds and message drawn from the    *)
(* given input sets.                                                       *)

AddWith(senders, funds_set, batches) ==
    /\ last.op = "Idle"
    /\ \E sender \in senders, funds \in funds_set, new_listings \in batches :
         LET admin == sender_is_admin(CONFIG, sender)
             out   == execute_add_listings(sender, funds, CONFIG.fee, admin,
                          unwrap_or(CONFIG.add_permissioned, FALSE),
                          unwrap_or(CONFIG.required_fields, <<>>),
                          new_listings, DENOM_MAP, SYMBOL_MAP)
         IN  /\ DENOM_MAP' = host_commit(out.res, out.dm, DENOM_MAP)
             /\ SYMBOL_MAP' = host_commit(out.res, out.sm, SYMBOL_MAP)
             /\ last' = Call("Add", sender, funds, new_listings, out.res, <<>>)
    /\ UNCHANGED <<CONFIG, ledger_vars, host_vars>>

UpdateWith(senders, batches) ==
    /\ last.op = "Idle"
    /\ \E sender \in senders, updated_listings \in batches :
         LET admin == sender_is_admin(CONFIG, sender)
             out   == execute_update_listings(sender, admin,
                          unwrap_or(CONFIG.add_permissioned, FALSE),
                          unwrap_or(CONFIG.required_fields, <<>>),
                          updated_listings, DENOM_MAP, SYMBOL_MAP)
         IN  /\ DENOM_MAP' = host_commit(out.res, out.dm, DENOM_MAP)
             /\ SYMBOL_MAP' = host_commit(out.res, out.sm, SYMBOL_MAP)
             /\ last' = Call("Update", sender, <<>>, updated_listings, out.res, <<>>)
    /\ UNCHANGED <<CONFIG, ledger_vars, host_vars>>

RemoveWith(senders, batches) ==
    /\ last.op = "Idle"
    /\ \E sender \in senders, denoms \in batches :
         LET admin == sender_is_admin(CONFIG, sender)
             out   == execute_remove_listings(sender, admin,
                          unwrap_or(CONFIG.remove_permissioned, FALSE),
                          denoms, DENOM_MAP, SYMBOL_MAP)
         IN  /\ DENOM_MAP' = host_commit(out.res, out.dm, DENOM_MAP)
             /\ SYMBOL_MAP' = host_commit(out.res, out.sm, SYMBOL_MAP)
             /\ last' = Call("Remove", sender, <<>>, denoms, out.res, <<>>)
    /\ UNCHANGED <<CONFIG, ledger_vars, host_vars>>

\* UpdateConfigWith that empties both indexes of the catalog
UpdateConfigWith_clears_catalog(senders, new_configs) ==
    /\ last.op = "Idle"
    /\ \E sender \in senders, new_config \in new_configs :
         LET out == execute_update_config(sender, CONFIG, new_config)
         IN  /\ CONFIG' = host_commit(out.res, out.config, CONFIG)
             /\ last' = Call("UpdateConfig", sender, <<>>, new_config, out.res, <<>>)
    /\ DENOM_MAP' = EmptyMap
    /\ SYMBOL_MAP' = EmptyMap
    /\ UNCHANGED <<ledger_vars, host_vars>>

UpdateConfigWith(senders, new_configs) ==
    /\ last.op = "Idle"
    /\ \E sender \in senders, new_config \in new_configs :
         LET out == execute_update_config(sender, CONFIG, new_config)
         IN  /\ CONFIG' = host_commit(out.res, out.config, CONFIG)
             /\ last' = Call("UpdateConfig", sender, <<>>, new_config, out.res, <<>>)
    /\ UNCHANGED <<DENOM_MAP, SYMBOL_MAP, ledger_vars, host_vars>>

\* ListingQuery::Denom
QueryByDenomWith(batches) ==
    /\ last.op = "Idle"
    /\ \E denoms \in batches :
         LET out == query_listings_by_denom(denoms, DENOM_MAP, <<>>)
         IN  last' = Answer("ByDenom", denoms, out.res, out.data)
    /\ UNCHANGED <<catalog_vars, ledger_vars, host_vars>>

\* ListingQuery::Symbol
QueryBySymbolWith(batches) ==
    /\ last.op = "Idle"
    /\ \E symbols \in batches :
         LET out == query_listings_by_symbol(symbols, DENOM_MAP, SYMBOL_MAP, <<>>)
         IN  last' = Answer("BySymbol", symbols, out.res, out.data)
    /\ UNCHANGED <<catalog_vars, ledger_vars, host_vars>>

\* QueryMsg::Config
QueryConfig ==
    /\ last.op = "Idle"
    /\ last' = Answer("Config", <<>>, Ok, <<CONFIG>>)
    /\ UNCHANGED <<catalog_vars, ledger_vars, host_vars>>

\* the host hands the result to the caller; the next invocation can start
Return ==
    /\ last.op # "Idle"
    /\ last' = Idle
    /\ UNCHANGED <<catalog_vars, ledger_vars, host_vars>>

----------------------------------------------------------------------------
(* Specification of the catalog: any sequence of Add, Update, Remove and   *)
(* UpdateConfig invocations and of lookup queries after an Instantiate.    *)

\* the listings offered to Add and Update
Items == Denoms \X ({FullMeta(s) : s \in Symbols} \cup {BareMeta("ION")})

ListingBatches == SeqUpTo(Items, MaxBatch)

DenomBatches == SeqUpTo(Denoms, MaxBatch)

SymbolBatches == SeqUpTo(Symbols, MaxBatch)

\* the InstantiateMsg values of the catalog specification
InstantiateMsgs ==
    {Config(ap, rp, rf, None, None, ow) :
        ap \in {None, Some(TRUE)}, rp \in {None, Some(TRUE)},
        rf \in {Some(<<"Logo", "Exp">>)},
        ow \in {None, Some("bob")}}

\* the UpdateConfig payloads of the catalog specification
NewConfigs ==
    {Config(None, None, None, None, ad, None) :
        ad \in {Some(<<>>), Some(<<"carol">>), Some(<<BadAddr>>)}}

\* the ledger contract is not deployed in the catalog specifications
NoLedger ==
    /\ ADMIN = ""
    /\ MAX_SUPPLY = 0
    /\ TOTAL_MINTED = 0
    /\ overflow_checks = TRUE
    /\ host = NoDenom

InitWith(msgs) ==
    /\ \E msg \in msgs : CONFIG = instantiate(Creator, msg)
    /\ DENOM_MAP = EmptyMap
    /\ SYMBOL_MAP = EmptyMap
    /\ last = Idle
    /\ NoLedger

Init == InitWith(InstantiateMsgs)

Add == AddWith(Addrs, {<<>>}, ListingBatches)

Update == UpdateWith(Addrs, ListingBatches)

Remove == RemoveWith(Addrs, DenomBatches)

UpdateConfig == UpdateConfigWith(Addrs, NewConfigs)

QueryByDenom == QueryByDenomWith(DenomBatches)

QueryBySymbol == QueryBySymbolWith(SymbolBatches)

Next ==
    \/ Add \/ Update \/ Remove \/ UpdateConfig
    \/ QueryByDenom \/ QueryBySymbol \/ QueryConfig
    \/ Return

Spec == Init /\ [][Next]_vars

----------------------------------------------------------------------------
(* Specification of the ledger: any sequence of Mint, Burn, Send,          *)
(* UpdateSupply and Revoke invocations after a successful Instantiate.     *)

\* the amounts offered to Mint, Send, Burn and UpdateSupply
Amounts == {0, 1, 2, UintMax}

\* the items offered to Mint and Send: two valid recipients, an amount
\* that fills the integer type, a zero amount and an invalid address
Receivers ==
    {Receiver("bob", 1), Receiver("carol", 2), Receiver("bob", UintMax),
     Receiver("bob", 0), Receiver(BadAddr, 1)}

ReceiverBatches == SeqUpTo(Receivers, MaxReceivers)

\* the accounts that call the ledger
LedgerSenders == {"alice", "bob"}

FactoryInstantiateMsgs ==
    {[admin |-> ad, initial_supply |-> i, max_supply |-> m] :
        ad \in {None, Some("bob")},
        i \in {None} \cup {Some(n) : n \in 0..UintMax},
        m \in {None} \cup {Some(n) : n \in 0..UintMax}}

\* the catalog contract is not deployed in the ledger specification
NoCatalog ==
    /\ CONFIG = <<>>
    /\ DENOM_MAP = EmptyMap
    /\ SYMBOL_MAP = EmptyMap

LedgerInit ==
    /\ \E msg \in FactoryInstantiateMsgs :
         LET out == factory_instantiate(Creator, msg) IN
         /\ out.res.tag = "Ok"
         /\ ADMIN = out.admin
         /\ MAX_SUPPLY = out.max_supply
         /\ TOTAL_MINTED = out.total_minted
    /\ overflow_checks \in BOOLEAN
    /\ host = NoDenom
    /\ last = Idle
    /\ NoCatalog

\* one execute call of the factory contract
Invoke(sender, msg) ==
    LET out == factory_execute(sender, msg, ADMIN, MAX_SUPPLY, TOTAL_MINTED,
                               overflow_checks)
    IN  /\ MAX_SUPPLY' = host_commit(out.res, out.max_supply, MAX_SUPPLY)
        /\ TOTAL_MINTED' = host_commit(out.res, out.total_minted, TOTAL_MINTED)
        /\ last' = Call(msg.type, sender, <<>>, msg.arg, out.res,
                        host_commit(out.res, out.msgs, <<>>))

Mint ==
    /\ last.op = "Idle"
    /\ \E sender \in LedgerSenders, receivers \in ReceiverBatches :
         Invoke(sender, [type |-> "Mint", arg |-> receivers])
    /\ UNCHANGED <<ADMIN, overflow_checks, catalog_vars, host_vars>>

Burn ==
    /\ last.op = "Idle"
    /\ \E sender \in LedgerSenders, amount \in Amounts :
         Invoke(sender, [type |-> "Burn", arg |-> amount])
    /\ UNCHANGED <<ADMIN, overflow_checks, catalog_vars, host_vars>>

Send ==
    /\ last.op = "Idle"
    /\ \E sender \in LedgerSenders, receivers \in ReceiverBatches :
         Invoke(sender, [type |-> "Send", arg |-> receivers])
    /\ UNCHANGED <<ADMIN, overflow_checks, catalog_vars, host_vars>>

UpdateSupply ==
    /\ last.op = "Idle"
    /\ \E sender \in LedgerSenders, new_max \in 0..UintMax :
         Invoke(sender, [type |-> "UpdateSupply", arg |-> new_max])
    /\ UNCHANGED <<ADMIN, overflow_checks, catalog_vars, host_vars>>

Revoke ==
    /\ last.op = "Idle"
    /\ \E sender \in LedgerSenders :
         Invoke(sender, [type |-> "Revoke", arg |-> 0])
    /\ UNCHANGED <<ADMIN, overflow_checks, catalog_vars, host_vars>>

LedgerNext == Mint \/ Burn \/ Send \/ UpdateSupply \/ Revoke \/ Return

LedgerSpec == LedgerInit /\ [][LedgerNext]_vars

----------------------------------------------------------------------------
(* Specification of the fee gate: Add invocations, with attached funds,    *)
(* against catalogs instantiated with a fee schedule.                      *)

FeeItems == {<<"uion", FullMeta("ION")>>, <<"uosmo", FullMeta("OSMO")>>}

FeeBatches == SeqUpTo(FeeItems, MaxBatch)

\* the funds attached to an Add: none, one coin, or two coins
FundsInputs ==
    {<<>>}
    \cup {<<Coin(d, a)>> : d \in {"uatom", "uion", "uosmo"}, a \in 1..UintMax}
    \cup {<<Coin("uatom", a), Coin("uosmo", a)>> : a \in {1, UintMax}}
    \cup {<<Coin("uion", a), Coin("uosmo", a)>> : a \in {UintMax}}

FeeSchedules ==
    {<<Coin("uosmo", 2)>>,
     <<Coin("uosmo", 2), Coin("uatom", UintMax), Coin("uosmo", 1)>>}

FeeInstantiateMsgs ==
    {Config(ap, None, None, Some(f), None, ow) :
        ap \in {None, Some(TRUE)}, f \in FeeSchedules, ow \in {None, Some("bob")}}

FeeInit == InitWith(FeeInstantiateMsgs)

FeeAdd == AddWith(Addrs, FundsInputs, FeeBatches)

FeeRemove == RemoveWith(Addrs, DenomBatches)

FeeNext == FeeAdd \/ FeeRemove \/ Return

FeeSpec == FeeInit /\ [][FeeNext]_vars

----------------------------------------------------------------------------
(* Vocabulary of the properties *)

\* the invocation that has just run is a listing operation of the catalog
CatalogOp == last.op \in {"Add", "Update", "Remove"}

\* both indexes are as the invocation that has just run found them
StoreUnchanged == DENOM_MAP = last.dm /\ SYMBOL_MAP = last.sm

\* the caller of the invocation that has just run was in the stored admin list
CallerWasAdmin == sender_is_admin(last.config, last.sender)

\* membership of the privileged set as the specification defines it:
\* the stored admins and the owner
is_admin(config, caller) ==
    caller = unwrap(config.owner) \/ contains(unwrap_or(config.admins, <<>>), caller)

AddRestricted == unwrap_or(last.config.add_permissioned, FALSE)

RemoveRestricted == unwrap_or(last.config.remove_permissioned, FALSE)

RequiredFields == unwrap_or(last.config.required_fields, <<>>)

\* the denom that item i of the batch that has just run names
Target(i) == IF last.op = "Remove" THEN last.arg[i] ELSE last.arg[i][1]

FeeErrors == {"MissingFee", "MultipleFees", "InvalidFee", "InsufficientFee"}

----------------------------------------------------------------------------
(* Properties of the ledger (LedgerSpec) *)

\* C1: supply cap invariant - whenever max_supply is not 0, total_minted is
\* at most max_supply, after any sequence of ledger invocations
SupplyCapInvariant == MAX_SUPPLY # 0 => TOTAL_MINTED <= MAX_SUPPLY

\* C1 witness: a Mint has just failed on the cap, and an earlier Mint had
\* filled the cap exactly
SupplyCapReached ==
    /\ last.op = "Mint"
    /\ last.res.tag = "SupplyCap"
    /\ MAX_SUPPLY # 0
    /\ TOTAL_MINTED = MAX_SUPPLY

----------------------------------------------------------------------------
(* Properties of the catalog (Spec) *)

\* C2: catalog uniqueness - no two stored records have the same symbol
SymbolsUnique ==
    \A d1 \in DOMAIN DENOM_MAP : \A d2 \in DOMAIN DENOM_MAP :
        d1 # d2 => DENOM_MAP[d1].metadata.symbol # DENOM_MAP[d2].metadata.symbol

\* C2 witness: with two records stored, an Update that would have given one
\* record the symbol of the other has just been refused
TwoRecordsAndSymbolRefused ==
    /\ last.op = "Update"
    /\ last.res.tag = "DuplicateListing"
    /\ Cardinality(DOMAIN DENOM_MAP) = 2
    /\ \E d \in DOMAIN DENOM_MAP :
         /\ DENOM_MAP[d].metadata.symbol = last.res.arg
         /\ \E i \in 1..Len(last.arg) :
              last.arg[i][1] # d /\ last.arg[i][2].symbol = last.res.arg

\* C3: forward consistency - the symbol index maps the symbol of every
\* stored record to that record's denom
ForwardConsistent ==
    \A d \in DOMAIN DENOM_MAP :
        /\ has(SYMBOL_MAP, DENOM_MAP[d].metadata.symbol)
        /\ SYMBOL_MAP[DENOM_MAP[d].metadata.symbol] = d

\* C3 witness: an Update has just changed the symbol of a stored record
SymbolChangedByUpdate ==
    /\ last.op = "Update"
    /\ last.res.tag = "Ok"
    /\ \E d \in DOMAIN DENOM_MAP :
         /\ d \in DOMAIN last.dm
         /\ last.dm[d].metadata.symbol # DENOM_MAP[d].metadata.symbol

\* C4 (the claim as stated): mutual consistency - every entry s -> d of the
\* symbol index refers to a stored denom d whose record has symbol s
SymbolIndexSound ==
    \A s \in DOMAIN SYMBOL_MAP :
        /\ has(DENOM_MAP, SYMBOL_MAP[s])
        /\ DENOM_MAP[SYMBOL_MAP[s]].metadata.symbol = s

\* C5: authorship boundary - an Update or Remove by a caller who is not in
\* the admin list, naming a stored record whose author is not the caller,
\* fails and leaves both indexes as they were
AuthorshipBoundary ==
    (/\ last.op \in {"Update", "Remove"}
     /\ ~CallerWasAdmin
     /\ \E i \in 1..Len(last.arg) :
          /\ Target(i) \in DOMAIN last.dm
          /\ last.dm[Target(i)].author # Some(last.sender))
    => (last.res.tag # "Ok" /\ StoreUnchanged)

\* C5 witness: with neither permission flag set, a Remove of another
\* user's record has just been refused as Unauthorized
ForeignRemoveRefused ==
    /\ last.op = "Remove"
    /\ last.res.tag = "Unauthorized"
    /\ ~AddRestricted
    /\ ~RemoveRestricted
    /\ Len(last.arg) = 1
    /\ is_some(last.dm[last.arg[1]].author)

\* the handler's loop of the listing operation that has just run, applied to
\* `batch` from the indexes dm and sm
RunLoop(batch, dm, sm) ==
    IF last.op = "Add"
        THEN add_loop(batch, last.sender, CallerWasAdmin, RequiredFields, dm, sm)
    ELSE IF last.op = "Update"
        THEN update_loop(batch, last.sender, CallerWasAdmin, RequiredFields, dm, sm)
    ELSE remove_loop(batch, last.sender, CallerWasAdmin, dm, sm)

\* the invocation that has just run got past the checks made before the loop
PassedGates ==
    IF last.op = "Add"
        THEN /\ ~(AddRestricted /\ ~CallerWasAdmin)
             /\ fee_gate(last.funds, last.config.fee, CallerWasAdmin, Len(last.arg)).tag = "Ok"
    ELSE IF last.op = "Update" THEN ~(AddRestricted /\ ~CallerWasAdmin)
    ELSE ~(RemoveRestricted /\ ~CallerWasAdmin)

\* item k of the batch fails its checks although the items before it pass
\* theirs; the value is the error of item k
FailsAt(k) ==
    LET done == RunLoop(SubSeq(last.arg, 1, k - 1), last.dm, last.sm)
        item == RunLoop(<<last.arg[k]>>, done.dm, done.sm)
    IN  [fails |-> done.res.tag = "Ok" /\ item.res.tag # "Ok",
         wrote |-> done.dm # last.dm,
         res   |-> item.res]

Carries(j) == check_required_fields(RequiredFields, last.arg[j][2]).tag = "Ok"

\* item k of the Add batch names a denom that is stored or that an earlier
\* item of the batch introduces
DenomTaken(k) ==
    \/ last.arg[k][1] \in DOMAIN last.dm
    \/ \E j \in 1..(k - 1) : Carries(j) /\ last.arg[j][1] = last.arg[k][1]

\* item k of the Add batch carries a symbol that is in the symbol index or
\* that an earlier item of the batch introduces
SymbolTaken(k) ==
    \/ last.arg[k][2].symbol \in DOMAIN last.sm
    \/ \E j \in 1..(k - 1) : Carries(j) /\ last.arg[j][2].symbol = last.arg[k][2].symbol

\* item k is the first item of the Add batch whose denom or symbol is taken
FirstDuplicate(k) ==
    /\ DenomTaken(k) \/ SymbolTaken(k)
    /\ \A j \in 1..(k - 1) : ~(DenomTaken(j) \/ SymbolTaken(j))

\* the key DuplicateListing carries for item k: the denom when it is taken,
\* else the symbol
DuplicateKey(k) == IF DenomTaken(k) THEN last.arg[k][1] ELSE last.arg[k][2].symbol

\* C7 (the claim as stated): every Add batch with a duplicate item fails
\* with DuplicateListing carrying the colliding key, and changes nothing
DuplicateAddAlwaysDuplicateListing ==
    last.op = "Add" =>
        \A k \in 1..Len(last.arg) :
            FirstDuplicate(k) =>
                /\ last.res = Err("DuplicateListing", DuplicateKey(k))
                /\ StoreUnchanged

\* C7 (amended): every Add batch with a duplicate item fails and changes
\* nothing; it fails with DuplicateListing carrying the colliding key when
\* the caller passes the permission and fee checks and every item before
\* the first duplicate carries the required fields
DuplicateAddFails ==
    last.op = "Add" =>
        \A k \in 1..Len(last.arg) :
            FirstDuplicate(k) =>
                /\ last.res.tag # "Ok"
                /\ StoreUnchanged
                /\ (PassedGates /\ \A j \in 1..(k - 1) : Carries(j))
                   => last.res = Err("DuplicateListing", DuplicateKey(k))

\* C7 witness: the second item of an Add has just been refused for a denom
\* that is stored and a symbol that the first item of the batch introduced
DuplicateWithinBatch ==
    /\ last.op = "Add"
    /\ Len(last.arg) = 2
    /\ last.arg[2][1] \in DOMAIN last.dm
    /\ last.arg[2][2].symbol \notin DOMAIN last.sm
    /\ last.arg[1][2].symbol = last.arg[2][2].symbol
    /\ FirstDuplicate(2)
    /\ last.res = Err("DuplicateListing", last.arg[2][1])

----------------------------------------------------------------------------
(* Properties of the fee gate (FeeSpec) *)

\* an Add by a caller outside the admin list while a fee schedule is configured
FeeGateCase ==
    /\ last.op = "Add"
    /\ ~CallerWasAdmin
    /\ is_some(last.config.fee)

\* the fee schedule lists denomination d
Scheduled(d) ==
    \E i \in 1..Len(unwrap(last.config.fee)) : unwrap(last.config.fee)[i].denom = d

\* the per-item fee of denomination d: the amount of its first schedule entry
PerItemFee(d) ==
    LET fee == unwrap(last.config.fee)
        i   == CHOOSE i \in 1..Len(fee) :
                   /\ fee[i].denom = d
                   /\ \A j \in 1..(i - 1) : fee[j].denom # d
    IN  fee[i].amount

\* the fee owed for the batch in the denomination of the single attached coin
FeeOwed == PerItemFee(last.funds[1].denom) * Len(last.arg)

\* the error each fee check returns, in the order of the checks
FeeErrorsInOrder ==
    /\ Len(last.funds) = 0 => last.res.tag = "MissingFee"
    /\ Len(last.funds) > 1 => last.res.tag = "MultipleFees"
    /\ (Len(last.funds) = 1 /\ ~Scheduled(last.funds[1].denom))
           => last.res.tag = "InvalidFee"
    /\ (/\ Len(last.funds) = 1
        /\ Scheduled(last.funds[1].denom)
        /\ last.funds[1].amount < FeeOwed)
           => last.res.tag = "InsufficientFee"
    /\ last.res.tag \in FeeErrors => StoreUnchanged

\* C8 (the claim as stated): a non-admin Add under a fee schedule gets
\* MissingFee, MultipleFees, InvalidFee, InsufficientFee in that order
FeeGateOrderingAlways == FeeGateCase => FeeErrorsInOrder

\* C8 (amended): the same, for an Add that the add-permission check lets
\* through; an amount below the fee owed gets InsufficientFee when the
\* product fee x count fits the integer type, and the call aborts on the
\* multiplication when it does not; a refused Add changes nothing
FeeGateOrdering ==
    (FeeGateCase /\ ~AddRestricted) =>
        /\ Len(last.funds) = 0 => last.res.tag = "MissingFee"
        /\ Len(last.funds) > 1 => last.res.tag = "MultipleFees"
        /\ (Len(last.funds) = 1 /\ ~Scheduled(last.funds[1].denom))
               => last.res.tag = "InvalidFee"
        /\ (Len(last.funds) = 1 /\ Scheduled(last.funds[1].denom)) =>
               /\ (FeeOwed <= UintMax /\ last.funds[1].amount < FeeOwed)
                      => last.res.tag = "InsufficientFee"
               /\ FeeOwed > UintMax => last.res.tag = "Panic"
        /\ last.res.tag \in (FeeErrors \cup {"Panic"}) => StoreUnchanged

\* C8 witness: two coins have just been refused as MultipleFees although
\* the first of them is in no fee schedule entry
MultipleFeesBeforeInvalidFee ==
    /\ FeeGateCase
    /\ Len(last.funds) = 2
    /\ ~Scheduled(last.funds[1].denom)
    /\ last.res.tag = "MultipleFees"

\* the Add that has just run, had no fee schedule been configured
WithoutFeeSchedule ==
    execute_add_listings(last.sender, last.funds, None, CallerWasAdmin, AddRestricted,
                         RequiredFields, last.arg, last.dm, last.sm)

\* C9: fee threshold - a non-admin Add paying one coin of a scheduled
\* denomination passes the fee gate iff the amount is at least count x fee,
\* and an otherwise valid batch succeeds iff the amount is at least count x fee
FeeThreshold ==
    (FeeGateCase /\ Len(last.funds) = 1 /\ Scheduled(last.funds[1].denom)) =>
        /\ ~AddRestricted =>
             (last.res.tag \notin (FeeErrors \cup {"Panic"})
                 <=> last.funds[1].amount >= FeeOwed)
        /\ WithoutFeeSchedule.res.tag = "Ok" =>
             (last.res.tag = "Ok" <=> last.funds[1].amount >= FeeOwed)

\* C9 witness: an Add of two items has just succeeded on exactly the fee owed
ExactFeeAccepted ==
    /\ FeeGateCase
    /\ Len(last.arg) = 2
    /\ Len(last.funds) = 1
    /\ Scheduled(last.funds[1].denom)
    /\ last.funds[1].amount = FeeOwed
    /\ last.res.tag = "Ok"
    /\ Cardinality(DOMAIN DENOM_MAP) = 2

\* C10 (the claim as stated): an Add by an admin - a stored admin or the
\* owner - is never rejected with one of the four fee errors
AdminFeeBypass ==
    (last.op = "Add" /\ is_admin(last.config, last.sender))
        => last.res.tag \notin FeeErrors

----------------------------------------------------------------------------
(* Properties of the authorization policy (Spec) *)

AdminOnlyErrors == {"AddPermissioned", "RemovePermissioned", "Unauthorized"}

\* C11 (the claim as stated): the owner is always an admin - a listing
\* operation called by the current owner is never refused with an error
\* that only callers without admin privileges get
OwnerHasAdminRights ==
    (CatalogOp /\ last.sender = unwrap(last.config.owner))
        => last.res.tag \notin AdminOnlyErrors

----------------------------------------------------------------------------
(* Specification of the configuration: any sequence of UpdateConfig        *)
(* invocations after an Instantiate that leaves the owner to default to    *)
(* the instantiating account.                                              *)

ConfigInstantiateMsgs ==
    {Config(Some(TRUE), None, Some(<<"Logo">>), fee, ad, None) :
        fee \in {None, Some(<<Coin("uosmo", 2)>>)},
        ad \in {None, Some(<<"carol">>)}}

\* the UpdateConfig payloads: every field omitted or given, with an address
\* that fails validation among the owners and the admin lists
ConfigPayloads ==
    {Config(ap, rp, rf, fee, ad, ow) :
        ap \in {None, Some(FALSE)}, rp \in {None, Some(TRUE)},
        rf \in {None, Some(<<>>)}, fee \in {None, Some(<<Coin("uatom", 1)>>)},
        ad \in {None, Some(<<>>), Some(<<"carol">>), Some(<<"bob", BadAddr>>)},
        ow \in {None, Some("alice"), Some("bob"), Some(BadAddr)}}

ConfigInit == InitWith(ConfigInstantiateMsgs)

ConfigUpdate == UpdateConfigWith(Addrs, ConfigPayloads)

ConfigNext == ConfigUpdate \/ Return

ConfigSpec == ConfigInit /\ [][ConfigNext]_vars

----------------------------------------------------------------------------
(* Properties of UpdateConfig (ConfigSpec) *)

\* the addresses of the stored admin list
AdminSet(config) ==
    {unwrap_or(config.admins, <<>>)[i] : i \in 1..Len(unwrap_or(config.admins, <<>>))}

\* an UpdateConfig has just succeeded
ConfigUpdated == last.op = "UpdateConfig" /\ last.res.tag = "Ok"

\* C12: UpdateConfig is owner-only - an UpdateConfig by a caller who is not
\* the current owner, a stored admin and a former owner included, fails
\* with NotOwner and leaves Config as it was
OwnerOnly ==
    (last.op = "UpdateConfig" /\ last.sender # unwrap(last.config.owner))
        => (last.res.tag = "NotOwner" /\ CONFIG = last.config)

\* C12 witness: the instantiating account, the first owner and still in the
\* admin list, has just been refused after the ownership went to bob
FormerOwnerRefused ==
    /\ last.op = "UpdateConfig"
    /\ last.sender = Creator
    /\ last.config.owner = Some("bob")
    /\ Creator \in AdminSet(last.config)
    /\ last.res.tag = "NotOwner"
    /\ CONFIG = last.config

\* C13 (the claim as stated): after a successful UpdateConfig that names a
\* new owner, that account is the stored owner and is in the stored admin
\* list, with or without an admin list in the payload
NewOwnerIsAdmin ==
    (ConfigUpdated /\ is_some(last.arg.owner)) =>
        /\ CONFIG.owner = last.arg.owner
        /\ unwrap(last.arg.owner) \in AdminSet(CONFIG)

----------------------------------------------------------------------------
(* Properties of the ledger operations (LedgerSpec) *)

\* the invocation that has just run is an operation of the ledger
LedgerOp == last.op \in {"Mint", "Burn", "Send", "UpdateSupply", "Revoke"}

\* the caller of the invocation that has just run is the stored admin
ByAdmin == last.sender = ADMIN

\* both stored numbers are as the invocation that has just run found them
LedgerUnchanged == MAX_SUPPLY = last.max_supply /\ TOTAL_MINTED = last.total_minted

\* a batch item with a nonzero amount and an address that passes validation
ValidItem(r) == r.amount # 0 /\ addr_validate(r.address)

ValidBatch == \A i \in 1..Len(last.arg) : ValidItem(last.arg[i])

\* the sum, as a number, of the amounts of the first k items of a batch
RECURSIVE SumOf(_, _)
SumOf(batch, k) == IF k = 0 THEN 0 ELSE batch[k].amount + SumOf(batch, k - 1)

BatchSum == SumOf(last.arg, Len(last.arg))

\* C15 (the claim as stated): a Mint of valid items fails with SupplyCap
\* iff max_supply is not 0 and batch sum + total_minted exceeds it; SupplyCap
\* changes nothing and emits nothing; a batch that fills the cap exactly
\* succeeds
MintCapRejection ==
    (last.op = "Mint" /\ ByAdmin /\ ValidBatch) =>
        /\ last.res.tag = "SupplyCap"
               <=> (/\ last.max_supply # 0
                    /\ BatchSum + last.total_minted > last.max_supply)
        /\ last.res.tag = "SupplyCap" => (LedgerUnchanged /\ last.msgs = <<>>)
        /\ (last.max_supply # 0 /\ BatchSum + last.total_minted = last.max_supply)
               => last.res.tag = "Ok"

\* C16 (the claim as stated): a successful Mint adds the batch sum to
\* total_minted, keeps max_supply, and emits one issuance per item, in batch
\* order, for the item's recipient and amount
MintEffect ==
    (last.op = "Mint" /\ last.res.tag = "Ok") =>
        /\ TOTAL_MINTED = last.total_minted + BatchSum
        /\ MAX_SUPPLY = last.max_supply
        /\ Len(last.msgs) = Len(last.arg)
        /\ \A i \in 1..Len(last.arg) :
               last.msgs[i] = MsgMint(last.arg[i].address, last.arg[i].amount)

\* C17 (the claim as stated): no ledger invocation lowers total_minted, and
\* a successful Burn leaves total_minted and max_supply as they were
HighWaterMark ==
    /\ LedgerOp => TOTAL_MINTED >= last.total_minted
    /\ (last.op = "Burn" /\ last.res.tag = "Ok") => LedgerUnchanged

\* C18: an UpdateSupply by the admin fails with CurrentSupply, keeping
\* max_supply, iff the new maximum is not 0 and is below total_minted;
\* otherwise it succeeds and stores the new maximum; total_minted stays
UpdateSupplyRule ==
    (last.op = "UpdateSupply" /\ ByAdmin) =>
        /\ last.res.tag = "CurrentSupply"
               <=> (last.arg # 0 /\ last.arg < last.total_minted)
        /\ last.res.tag = "CurrentSupply" => MAX_SUPPLY = last.max_supply
        /\ last.res.tag # "CurrentSupply"
               => (last.res.tag = "Ok" /\ MAX_SUPPLY = last.arg)
        /\ TOTAL_MINTED = last.total_minted

\* C18 witness: the cap has just been lowered to exactly total_minted
CapSetToTotalMinted ==
    /\ last.op = "UpdateSupply"
    /\ ByAdmin
    /\ last.arg = last.total_minted
    /\ last.arg # 0
    /\ last.max_supply > last.arg
    /\ last.res.tag = "Ok"
    /\ MAX_SUPPLY = TOTAL_MINTED

\* a ledger invocation by a caller who is not the stored admin fails with
\* Unauthorized, changes neither stored number and emits nothing
StrangerRefused ==
    (LedgerOp /\ ~ByAdmin) =>
        /\ last.res.tag = "Unauthorized"
        /\ LedgerUnchanged
        /\ last.msgs = <<>>

\* C19: ledger operations are admin-only - every invocation by another
\* caller is refused without effect, and no step changes the stored admin
LedgerAdminOnly == []StrangerRefused /\ [][ADMIN' = ADMIN]_vars

\* C19 witness: the instantiating account, which named bob as admin, has
\* just been refused a Mint of a valid batch
CreatorMintRefused ==
    /\ last.op = "Mint"
    /\ ADMIN = "bob"
    /\ last.sender = Creator
    /\ Len(last.arg) > 0
    /\ ValidBatch
    /\ last.res.tag = "Unauthorized"

\* item k is the first item of the batch that is not valid
FirstInvalid(k) ==
    /\ ~ValidItem(last.arg[k])
    /\ \A j \in 1..(k - 1) : ValidItem(last.arg[j])

\* the error a Mint or Send returns for an invalid item at zero-based position i
InvalidAt(i) ==
    ErrAt(IF last.op = "Mint" THEN "MintInvalid" ELSE "TransferInvalid", i)

\* C20 (the claim as stated): a Mint or Send with an invalid item fails with
\* MintInvalid(i) or TransferInvalid(i), i the zero-based position of the
\* first invalid item, changes nothing and emits nothing
InvalidItemAlwaysReported ==
    (last.op \in {"Mint", "Send"} /\ ByAdmin) =>
        \A k \in 1..Len(last.arg) :
            FirstInvalid(k) =>
                /\ last.res = InvalidAt(k - 1)
                /\ LedgerUnchanged
                /\ last.msgs = <<>>

\* the running total of the items before item k overflows the integer type
\* and the addition panics: always in Send, in Mint when the build checks
\* overflow
TotalPanicsBefore(k) ==
    /\ SumOf(last.arg, k - 1) > UintMax
    /\ last.op = "Send" \/ overflow_checks

\* C20 (amended): a Mint or Send with an invalid item fails, changes nothing
\* and emits nothing; the error is MintInvalid(i) or TransferInvalid(i) for
\* the first invalid item, also when the batch exceeds the supply cap,
\* unless the addition of the amounts before that item panics first
InvalidItemReported ==
    (last.op \in {"Mint", "Send"} /\ ByAdmin) =>
        \A k \in 1..Len(last.arg) :
            FirstInvalid(k) =>
                /\ IF TotalPanicsBefore(k) THEN last.res.tag = "Panic"
                   ELSE last.res = InvalidAt(k - 1)
                /\ LedgerUnchanged
                /\ last.msgs = <<>>

\* C20 witness: a Mint whose first item alone exceeds the cap has just been
\* refused for its invalid second item
InvalidBeforeCap ==
    /\ last.op = "Mint"
    /\ ByAdmin
    /\ Len(last.arg) = 2
    /\ ValidItem(last.arg[1])
    /\ ~ValidItem(last.arg[2])
    /\ last.max_supply # 0
    /\ last.arg[1].amount + last.total_minted > last.max_supply
    /\ last.res = ErrAt("MintInvalid", 1)

----------------------------------------------------------------------------
(* Specification of the ledger's deployment: Instantiate invocations of    *)
(* the factory contract, each followed by the dispatch of its messages.    *)

\* the factory contract has not been instantiated
Undeployed ==
    /\ ADMIN = ""
    /\ MAX_SUPPLY = 0
    /\ TOTAL_MINTED = 0
    /\ overflow_checks \in BOOLEAN
    /\ host = NoDenom
    /\ last = Idle
    /\ NoCatalog

\* one instantiate call of the factory contract
InstantiateWith(senders, msgs) ==
    /\ last.op = "Idle"
    /\ ADMIN = ""
    /\ \E sender \in senders, msg \in msgs :
         LET out  == factory_instantiate(sender, msg)
             sent == dispatch(out.msgs, host, TRUE)
             res  == invocation_result(out.res, sent)
         IN  /\ ADMIN' = host_commit(res, out.admin, ADMIN)
             /\ MAX_SUPPLY' = host_commit(res, out.max_supply, MAX_SUPPLY)
             /\ TOTAL_MINTED' = host_commit(res, out.total_minted, TOTAL_MINTED)
             /\ host' = host_commit(res, sent.host, host)
             /\ last' = Call("Instantiate", sender, <<>>, msg, res,
                             host_commit(res, out.msgs, <<>>))
    /\ UNCHANGED <<overflow_checks, catalog_vars>>

\* the InstantiateMsg values: every field omitted or given, with an admin
\* address that fails validation
DeployMsgs ==
    {[admin |-> ad, initial_supply |-> i, max_supply |-> m] :
        ad \in {None, Some("bob"), Some(BadAddr)},
        i \in {None} \cup {Some(n) : n \in 0..UintMax},
        m \in {None} \cup {Some(n) : n \in 0..UintMax}}

FactoryInstantiate == InstantiateWith(LedgerSenders, DeployMsgs)

DeployNext == FactoryInstantiate \/ Return

DeploySpec == Undeployed /\ [][DeployNext]_vars

----------------------------------------------------------------------------
(* Properties of the ledger's Instantiate (DeploySpec) *)

InitialSupply == unwrap_or(last.arg.initial_supply, 0)

GivenMaxSupply == unwrap_or(last.arg.max_supply, 0)

\* what a successful Instantiate leaves: the two stored numbers, the
\* register-unit message first and, iff initial_supply is not 0, the
\* issuance of initial_supply to the contract after it
InstantiateEffect ==
    /\ TOTAL_MINTED = InitialSupply
    /\ MAX_SUPPLY = GivenMaxSupply
    /\ last.msgs[1] = MsgCreateDenom
    /\ InitialSupply = 0 => Len(last.msgs) = 1
    /\ InitialSupply > 0 => last.msgs = <<MsgCreateDenom, MsgMint(Contract, InitialSupply)>>

\* C21 (the claim as stated): Instantiate fails with SupplyCap iff
\* max_supply is not 0 and initial_supply exceeds it, and a successful
\* Instantiate has the stated effect
InstantiateRuleAlways ==
    last.op = "Instantiate" =>
        /\ last.res.tag = "SupplyCap"
               <=> (GivenMaxSupply # 0 /\ InitialSupply > GivenMaxSupply)
        /\ last.res.tag = "Ok" => InstantiateEffect

\* the admin of the InstantiateMsg is omitted or passes validation
AdminAcceptable == is_none(last.arg.admin) \/ addr_validate(unwrap(last.arg.admin))

\* C21 (amended): an Instantiate whose admin is omitted or valid fails with
\* SupplyCap iff max_supply is not 0 and initial_supply exceeds it, and
\* succeeds otherwise; an Instantiate with an invalid admin fails on the
\* address; a successful Instantiate has the stated effect
InstantiateRule ==
    last.op = "Instantiate" =>
        /\ AdminAcceptable =>
               /\ last.res.tag = "SupplyCap"
                      <=> (GivenMaxSupply # 0 /\ InitialSupply > GivenMaxSupply)
               /\ last.res.tag \in {"SupplyCap", "Ok"}
        /\ ~AdminAcceptable => last.res.tag = "Std"
        /\ last.res.tag = "Ok" => InstantiateEffect
        /\ last.res.tag # "Ok" => (ADMIN = "" /\ host = NoDenom)

\* C21 witness: an Instantiate whose initial_supply fills max_supply has
\* just succeeded and the contract holds the initial supply
InitialSupplyFillsCap ==
    /\ last.op = "Instantiate"
    /\ last.res.tag = "Ok"
    /\ InitialSupply = GivenMaxSupply
    /\ InitialSupply > 0
    /\ Len(last.msgs) = 2
    /\ host = Host(Contract, InitialSupply, InitialSupply)

----------------------------------------------------------------------------
(* Properties of the Mintable query *)

\* the MintableResponse before and after the invocation that has just run
MintableBefore == query_mintable(last.max_supply, last.total_minted, last.host.authority)

MintableNow == query_mintable(MAX_SUPPLY, TOTAL_MINTED, host.authority)

\* C22 (the claim as stated; LedgerSpec): cap_reached is true exactly when
\* max_supply is not 0 and equals total_minted; once true it stays true
\* under Burn and Send, becomes false only through a successful
\* UpdateSupply, and every Mint of a non-empty valid batch fails with
\* SupplyCap while it is true
CapReachedSticky ==
    /\ MintableNow.cap_reached <=> (MAX_SUPPLY # 0 /\ TOTAL_MINTED = MAX_SUPPLY)
    /\ (LedgerOp /\ MintableBefore.cap_reached) =>
           /\ last.op \in {"Burn", "Send"} => MintableNow.cap_reached
           /\ ~MintableNow.cap_reached
                  => (last.op = "UpdateSupply" /\ last.res.tag = "Ok")
           /\ (last.op = "Mint" /\ ByAdmin /\ Len(last.arg) > 0 /\ ValidBatch)
                  => last.res.tag = "SupplyCap"

----------------------------------------------------------------------------
(* Specification of the ledger on its chain: Instantiate, then any         *)
(* sequence of Mint, Burn, Send, UpdateSupply and Revoke invocations, each *)
(* followed by the dispatch of its messages to the chain's modules.        *)

\* one execute call of the factory contract and the dispatch of its messages
HostInvoke(sender, msg, zero_ok) ==
    LET out  == factory_execute(sender, msg, ADMIN, MAX_SUPPLY, TOTAL_MINTED,
                                overflow_checks)
        sent == dispatch(out.msgs, host, zero_ok)
        res  == invocation_result(out.res, sent)
    IN  /\ sent.host.supply <= MaxIssued
        /\ MAX_SUPPLY' = host_commit(res, out.max_supply, MAX_SUPPLY)
        /\ TOTAL_MINTED' = host_commit(res, out.total_minted, TOTAL_MINTED)
        /\ host' = host_commit(res, sent.host, host)
        /\ last' = Call(msg.type, sender, <<>>, msg.arg, res,
                        host_commit(res, out.msgs, <<>>))

HostDeployMsgs ==
    {[admin |-> None, initial_supply |-> i, max_supply |-> m] :
        i \in {None, Some(2)}, m \in {None, Some(3)}}

HostReceivers == {Receiver("bob", 1), Receiver("carol", 2), Receiver("bob", UintMax)}

HostBatches == SeqUpTo(HostReceivers, MaxBatch)

HostDeploy == InstantiateWith({Creator}, HostDeployMsgs)

HostMint ==
    /\ last.op = "Idle"
    /\ ADMIN # ""
    /\ \E sender \in LedgerSenders, receivers \in HostBatches :
         HostInvoke(sender, [type |-> "Mint", arg |-> receivers], TRUE)
    /\ UNCHANGED <<ADMIN, overflow_checks, catalog_vars>>

HostBurn ==
    /\ last.op = "Idle"
    /\ ADMIN # ""
    /\ \E sender \in LedgerSenders, amount \in {0, 1, 2}, zero_ok \in BOOLEAN :
         HostInvoke(sender, [type |-> "Burn", arg |-> amount], zero_ok)
    /\ UNCHANGED <<ADMIN, overflow_checks, catalog_vars>>

HostSend ==
    /\ last.op = "Idle"
    /\ ADMIN # ""
    /\ \E sender \in LedgerSenders, receivers \in HostBatches :
         HostInvoke(sender, [type |-> "Send", arg |-> receivers], TRUE)
    /\ UNCHANGED <<ADMIN, overflow_checks, catalog_vars>>

HostUpdateSupply ==
    /\ last.op = "Idle"
    /\ ADMIN # ""
    /\ \E sender \in LedgerSenders, new_max \in {0, 3, UintMax} :
         HostInvoke(sender, [type |-> "UpdateSupply", arg |-> new_max], TRUE)
    /\ UNCHANGED <<ADMIN, overflow_checks, catalog_vars>>

HostRevoke ==
    /\ last.op = "Idle"
    /\ ADMIN # ""
    /\ \E sender \in LedgerSenders :
         HostInvoke(sender, [type |-> "Revoke", arg |-> 0], TRUE)
    /\ UNCHANGED <<ADMIN, overflow_checks, catalog_vars>>

\* QueryMsg::TokenInfo
HostTokenInfo ==
    /\ last.op = "Idle"
    /\ ADMIN # ""
    /\ LET out == query_info(MAX_SUPPLY, TOTAL_MINTED, host, overflow_checks)
       IN  last' = Answer("TokenInfo", <<>>, out.res, out.data)
    /\ UNCHANGED <<catalog_vars, ledger_vars, host_vars>>

HostNext ==
    \/ HostDeploy \/ HostMint \/ HostBurn \/ HostSend \/ HostUpdateSupply
    \/ HostRevoke \/ HostTokenInfo \/ Return

HostSpec == Undeployed /\ [][HostNext]_vars

----------------------------------------------------------------------------
(* Properties of Revoke (HostSpec) *)

\* the denom's authority was the null address when the invocation that has
\* just run started
RevokedBefore == last.host.authority = null_address

\* a successful Revoke hands the authority to the null address with the one
\* message it emits and leaves both stored numbers as they were
RevokeEffect ==
    (last.op = "Revoke" /\ last.res.tag = "Ok") =>
        /\ last.msgs = <<MsgChangeAdmin>>
        /\ host.authority = null_address
        /\ MintableNow.revoked
        /\ LedgerUnchanged

\* C23: Revoke is one-way - a successful Revoke hands the authority to the
\* null address and changes neither stored number, and once the authority
\* is the null address no step takes it back: Mintable.revoked stays true
RevokeOneWay ==
    /\ []RevokeEffect
    /\ [][host.authority = null_address
            => /\ host'.authority = null_address
               /\ query_mintable(MAX_SUPPLY', TOTAL_MINTED', host'.authority).revoked]_vars

\* C23 witness: a Revoke has just succeeded on a ledger that had minted
RevokedAfterMint ==
    /\ last.op = "Revoke"
    /\ last.res.tag = "Ok"
    /\ last.host.authority = Contract
    /\ host.authority = null_address
    /\ host.supply > 0
    /\ TOTAL_MINTED > 0

\* no invocation that starts after a Revoke changes total_minted
MintedFrozen == (LedgerOp /\ RevokedBefore) => TOTAL_MINTED = last.total_minted

\* C24 (the claim as stated): after a successful Revoke every Mint and every
\* Burn by the admin returns an error, and total_minted keeps its value
NothingAfterRevokeAlways ==
    /\ (last.op \in {"Mint", "Burn"} /\ ByAdmin /\ RevokedBefore) => last.res.tag # "Ok"
    /\ MintedFrozen

\* C24 (amended): after a successful Revoke every Mint of a non-empty batch
\* and every Burn by the admin returns an error, and total_minted keeps its
\* value
NothingAfterRevoke ==
    /\ (last.op = "Mint" /\ ByAdmin /\ RevokedBefore /\ Len(last.arg) > 0)
           => last.res.tag # "Ok"
    /\ (last.op = "Burn" /\ ByAdmin /\ RevokedBefore) => last.res.tag # "Ok"
    /\ MintedFrozen

\* C24 witness: after a Revoke, a Mint of a valid batch within the cap has
\* just been refused by the tokenfactory module
MintRefusedAfterRevoke ==
    /\ last.op = "Mint"
    /\ ByAdmin
    /\ RevokedBefore
    /\ Len(last.arg) > 0
    /\ ValidBatch
    /\ last.max_supply = 0 \/ BatchSum + last.total_minted <= last.max_supply
    /\ last.res.tag = "Dispatch"

----------------------------------------------------------------------------
(* Specification of the All query: a catalog of any content, listed page   *)
(* by page. A denom is the sequence of its bytes, so that the order of the *)
(* storage is the order of the keys.                                       *)

\* "a", "ab", "b" and "ba"
PageKeys == {<<97>>, <<97, 98>>, <<98>>, <<98, 97>>}

\* the two-letter denoms over sixteen letters: more than one page of records
ManyKeys == {<<a, b>> : a \in 97..112, b \in 97..112}

\* the cursors: the stored denoms, "aa" and "c" that are never stored
Cursors == PageKeys \cup {<<97, 97>>, <<99>>}

\* the limits: none, small ones, the maximum, one more, and a large one
Limits ==
    {None, Some(0), Some(1), Some(2), Some(MAX_PAGE_LIMIT),
     Some(MAX_PAGE_LIMIT + 1), Some(1000000)}

\* the catalog an admin builds by adding the given denoms
PageCatalog(keys) == [k \in keys |-> Listing(None, FullMeta(k))]

PageInit ==
    /\ CONFIG = instantiate(Creator, Config(None, None, None, None, None, None))
    /\ \E keys \in (SUBSET PageKeys) \cup {ManyKeys} :
         /\ DENOM_MAP = PageCatalog(keys)
         /\ SYMBOL_MAP = [k \in keys |-> k]
    /\ last = Idle
    /\ NoLedger

\* QueryMsg::All
QueryAll ==
    /\ last.op = "Idle"
    /\ \E start_after \in {None} \cup {Some(c) : c \in Cursors}, limit \in Limits :
         last' = Answer("All", [start_after |-> start_after, limit |-> limit], Ok,
                        query_all_listings(DENOM_MAP, start_after, limit))
    /\ UNCHANGED <<catalog_vars, ledger_vars, host_vars>>

\* a client lists the catalog one record at a time: the first call has no
\* cursor
EnumerateFirst ==
    /\ last.op = "Idle"
    /\ last' = Answer("Enumerate", [start_after |-> None, limit |-> Some(1)], Ok,
                      <<query_all_listings(DENOM_MAP, None, Some(1))>>)
    /\ UNCHANGED <<catalog_vars, ledger_vars, host_vars>>

\* ... and each later call passes the denom of the page before as the
\* cursor, until a page comes back empty
EnumerateNext ==
    /\ last.op = "Enumerate"
    /\ last.data[Len(last.data)] # <<>>
    /\ LET start_after == Some(last.data[Len(last.data)][1][1])
       IN  last' = [last EXCEPT
                      !.arg = [start_after |-> start_after, limit |-> Some(1)],
                      !.data = Append(@, query_all_listings(DENOM_MAP, start_after,
                                                            Some(1)))]
    /\ UNCHANGED <<catalog_vars, ledger_vars, host_vars>>

PageNext == QueryAll \/ EnumerateFirst \/ EnumerateNext \/ Return

PageSpec == PageInit /\ [][PageNext]_vars

----------------------------------------------------------------------------
(* Properties of the All query (PageSpec) *)

\* the pages of the enumeration in progress that hold a record
FullPages == {i \in 1..Len(last.data) : last.data[i] # <<>>}

\* the denom returned by the i-th call of the enumeration
Returned(i) == last.data[i][1][1]

\* C25: pagination is complete - All with limit 1, chained by start_after
\* over a catalog nothing writes to, returns the stored denoms in ascending
\* order, each once and none skipped, and ends with the first empty page,
\* after N + 1 calls for a catalog of N records
PaginationComplete ==
    last.op = "Enumerate" =>
        /\ \A i \in 1..Len(last.data) :
             /\ Len(last.data[i]) <= 1
             /\ last.data[i] = <<>> => i = Len(last.data)
        /\ \A i \in FullPages :
             /\ Returned(i) \in DOMAIN DENOM_MAP
             /\ last.data[i][1][2] = DENOM_MAP[Returned(i)].metadata
             /\ i > 1 => key_less(Returned(i - 1), Returned(i))
        /\ \A k \in DOMAIN DENOM_MAP \ {Returned(i) : i \in FullPages} :
             /\ last.data[Len(last.data)] # <<>>
             /\ key_less(Returned(Len(last.data)), k)
        /\ last.data[Len(last.data)] = <<>>
             => Len(last.data) = Cardinality(DOMAIN DENOM_MAP) + 1

\* C25 witness: the enumeration of the four-record catalog has ended, after
\* five calls
EnumerationEnded ==
    /\ last.op = "Enumerate"
    /\ DOMAIN DENOM_MAP = PageKeys
    /\ Len(last.data) = 5
    /\ last.data[5] = <<>>

\* the denoms an All query may return: those strictly after its cursor
Eligible ==
    {k \in DOMAIN DENOM_MAP :
        is_none(last.arg.start_after) \/ key_less(unwrap(last.arg.start_after), k)}

\* the page size an All query asks for
PageSize ==
    IF is_none(last.arg.limit) \/ unwrap(last.arg.limit) > 250 THEN 250
    ELSE unwrap(last.arg.limit)

\* C26: All never errors and returns the first min(limit, 250) records, 250
\* when no limit is given, among those whose denom is strictly greater than
\* start_after, in ascending order of denom; the cursor is never returned
\* and need not be a stored denom
AllPage ==
    last.op = "All" =>
        /\ last.res.tag = "Ok"
        /\ Len(last.data) = IF Cardinality(Eligible) < PageSize
                            THEN Cardinality(Eligible) ELSE PageSize
        /\ \A i \in 1..Len(last.data) :
             /\ last.data[i][1] \in Eligible
             /\ last.data[i][2] = DENOM_MAP[last.data[i][1]].metadata
             /\ i > 1 => key_less(last.data[i - 1][1], last.data[i][1])
        /\ \A k \in Eligible \ {last.data[i][1] : i \in 1..Len(last.data)} :
             last.data # <<>> => key_less(last.data[Len(last.data)][1], k)

\* C26 witness: a limit above the maximum, a cursor that is not stored, and
\* a page of 250 of the 256 records after it
ClampedPage ==
    /\ last.op = "All"
    /\ last.arg.limit = Some(MAX_PAGE_LIMIT + 1)
    /\ last.arg.start_after = Some(<<97>>)
    /\ Cardinality(DOMAIN DENOM_MAP) = 256
    /\ Len(last.data) = 250

----------------------------------------------------------------------------
(* Properties of authorship and of Remove and Update (Spec) *)

\* C27 (the claim as stated): Add authorship - a successful Add stores the
\* caller as the author of each record when the caller is not an admin and
\* no author when the caller is an admin, a stored admin or the owner; and
\* an Update or Remove that names a stored record without an author
\* succeeds only for a caller who is an admin at that time
AddAuthorship ==
    /\ (last.op = "Add" /\ last.res.tag = "Ok")
         => \A i \in 1..Len(last.arg) :
              DENOM_MAP[Target(i)].author
                = IF is_admin(last.config, last.sender) THEN None
                  ELSE Some(last.sender)
    /\ (/\ last.op \in {"Update", "Remove"}
        /\ last.res.tag = "Ok"
        /\ \E i \in 1..Len(last.arg) :
             /\ Target(i) \in DOMAIN last.dm
             /\ is_none(last.dm[Target(i)].author))
         => is_admin(last.config, last.sender)

\* item k of the Remove batch that has just run names a denom that is not
\* stored when the handler reaches it: it was not stored before the
\* invocation, or an earlier item of the batch names it too
Missing(k) ==
    \/ last.arg[k] \notin DOMAIN last.dm
    \/ \E j \in 1..(k - 1) : last.arg[j] = last.arg[k]

\* the caller of the Remove that has just run may remove the record that
\* item j names
Removable(j) ==
    /\ last.arg[j] \in DOMAIN last.dm
    /\ CallerWasAdmin \/ last.dm[last.arg[j]].author = Some(last.sender)

\* an Add of the one pair (denom, symbol), every optional field present, sent
\* now by `sender` with no funds
AddNow(sender, denom, symbol) ==
    execute_add_listings(sender, <<>>, CONFIG.fee, sender_is_admin(CONFIG, sender),
                         unwrap_or(CONFIG.add_permissioned, FALSE),
                         unwrap_or(CONFIG.required_fields, <<>>),
                         <<<<denom, FullMeta(symbol)>>>>, DENOM_MAP, SYMBOL_MAP)

\* the callers whom the permission flag lets add now
MayAdd ==
    {a \in Addrs : ~unwrap_or(CONFIG.add_permissioned, FALSE) \/ sender_is_admin(CONFIG, a)}

\* C28 (amended): Remove and reuse - a successful Remove deletes each named
\* denom from the primary index and the record's symbol from the symbol
\* index, and an Add of the same pair sent next by a permitted caller
\* succeeds; a Remove naming a denom that is not stored, or removed by an
\* earlier item of the batch, fails and changes nothing, with
\* ListingNotFound naming the first such denom when the caller passes the
\* permission flag and may remove every record named before it
RemoveAndReuse ==
    last.op = "Remove" =>
        /\ last.res.tag = "Ok" =>
             \A i \in 1..Len(last.arg) :
                 /\ last.arg[i] \notin DOMAIN DENOM_MAP
                 /\ last.dm[last.arg[i]].metadata.symbol \notin DOMAIN SYMBOL_MAP
                 /\ \A a \in MayAdd :
                      AddNow(a, last.arg[i], last.dm[last.arg[i]].metadata.symbol).res.tag
                        = "Ok"
        /\ \A k \in 1..Len(last.arg) :
             Missing(k) =>
                 /\ last.res.tag # "Ok"
                 /\ StoreUnchanged
                 /\ (/\ PassedGates
                     /\ \A j \in 1..(k - 1) : ~Missing(j) /\ Removable(j))
                    => last.res = Err("ListingNotFound", last.arg[k])

\* C28 witness: a Remove naming the same stored denom twice has just been
\* refused, the second item not found
RemovedEarlierInBatch ==
    /\ last.op = "Remove"
    /\ Len(last.arg) = 2
    /\ last.arg[1] = last.arg[2]
    /\ Removable(1)
    /\ last.res = Err("ListingNotFound", last.arg[2])
    /\ StoreUnchanged

\* C28 (the claim as stated): a Remove naming a denom that is not stored
\* fails with ListingNotFound
RemoveMissingAlwaysNotFound ==
    last.op = "Remove" =>
        \A k \in 1..Len(last.arg) : Missing(k) => last.res.tag = "ListingNotFound"

\* the Update that has just run names one stored record, is sent by its
\* author or by a stored admin who passes the permission flag, carries the
\* required fields and changes the record's symbol
SymbolChange ==
    /\ last.op = "Update"
    /\ Len(last.arg) = 1
    /\ Target(1) \in DOMAIN last.dm
    /\ CallerWasAdmin \/ last.dm[Target(1)].author = Some(last.sender)
    /\ PassedGates
    /\ Carries(1)
    /\ last.arg[1][2].symbol # last.dm[Target(1)].metadata.symbol

\* another stored record has the symbol that the Update asks for
SymbolOfAnother ==
    \E d \in DOMAIN last.dm \ {Target(1)} :
        last.dm[d].metadata.symbol = last.arg[1][2].symbol

\* C29 (the claim as stated): Update symbol collision - an Update that
\* changes the symbol of a stored record to s' succeeds when no other stored
\* record has the symbol s', and fails with DuplicateListing(s') when
\* another stored record has it
UpdateSymbolCollision ==
    SymbolChange =>
        IF SymbolOfAnother
            THEN last.res = Err("DuplicateListing", last.arg[1][2].symbol)
        ELSE last.res.tag = "Ok"

\* C30 (the claim as stated): Update author rewrite - after a successful
\* Update the author of each record it names is the caller when the caller
\* is not an admin and absent when the caller is an admin, a stored admin
\* or the owner; and an Update or Remove of a stored record without an
\* author by a caller who is not an admin fails with Unauthorized
UpdateAuthorRewrite ==
    /\ (last.op = "Update" /\ last.res.tag = "Ok")
         => \A i \in 1..Len(last.arg) :
              DENOM_MAP[Target(i)].author
                = IF is_admin(last.config, last.sender) THEN None
                  ELSE Some(last.sender)
    /\ (/\ last.op \in {"Update", "Remove"}
        /\ Len(last.arg) = 1
        /\ Target(1) \in DOMAIN last.dm
        /\ is_none(last.dm[Target(1)].author)
        /\ ~is_admin(last.config, last.sender))
         => last.res.tag = "Unauthorized"

----------------------------------------------------------------------------
(* Properties of the permission flags and of the required fields (Spec) *)

\* the caller of the Update that has just run may rewrite the record that
\* item j names, and item j keeps its symbol and carries the required fields
Rewritable(j) ==
    /\ Target(j) \in DOMAIN last.dm
    /\ CallerWasAdmin \/ last.dm[Target(j)].author = Some(last.sender)
    /\ last.arg[j][2].symbol = last.dm[Target(j)].metadata.symbol
    /\ Carries(j)

NamesStoredOnce ==
    /\ \A k \in 1..Len(last.arg) : last.arg[k] \in DOMAIN last.dm
    /\ \A j \in 1..Len(last.arg) : \A k \in 1..Len(last.arg) :
         last.arg[j] = last.arg[k] => j = k

\* C32 (the claim as stated): Remove permission gate - with
\* remove_permissioned set every Remove by a caller who is not an admin
\* fails with RemovePermissioned; with the flag not set an author who is not
\* an admin removes their own records, whatever add_permissioned is; and an
\* admin, a stored admin or the owner, removes any stored records
RemoveGate ==
    last.op = "Remove" =>
        /\ (RemoveRestricted /\ ~is_admin(last.config, last.sender))
             => last.res.tag = "RemovePermissioned"
        /\ (/\ ~RemoveRestricted
            /\ ~is_admin(last.config, last.sender)
            /\ NamesStoredOnce
            /\ \A k \in 1..Len(last.arg) : last.dm[last.arg[k]].author = Some(last.sender))
             => last.res.tag = "Ok"
        /\ (is_admin(last.config, last.sender) /\ NamesStoredOnce)
             => last.res.tag = "Ok"

\* the metadata lacks the field
Lacks(metadata, field) ==
    \/ field = "Exp" /\ is_none(metadata.exp)
    \/ field = "Logo" /\ is_none(metadata.logo)
    \/ field = "Chain" /\ is_none(metadata.chain)

\* the positions in required_fields of the fields that item k of the batch
\* lacks
MissingAt(k) ==
    {p \in 1..Len(RequiredFields) : Lacks(last.arg[k][2], RequiredFields[p])}

\* the first field, in the order of required_fields, that item k lacks
FirstMissingField(k) ==
    RequiredFields[CHOOSE p \in MissingAt(k) : \A q \in MissingAt(k) : p <= q]

\* the symbol that the record named by item k of the Update batch has when
\* the handler reaches the item, the items before it accepted
SymbolWhenReached(k) ==
    LET earlier == {j \in 1..(k - 1) : Target(j) = Target(k)} IN
    IF earlier = {} THEN last.dm[Target(k)].metadata.symbol
    ELSE last.arg[CHOOSE j \in earlier : \A i \in earlier : i <= j][2].symbol

\* item k of the Add or Update batch that has just run passes the checks
\* that the handler makes on an item before the check of its fields
ReachesFieldCheck(k) ==
    IF last.op = "Add" THEN ~DenomTaken(k) /\ ~SymbolTaken(k)
    ELSE /\ Target(k) \in DOMAIN last.dm
         /\ CallerWasAdmin \/ last.dm[Target(k)].author = Some(last.sender)
         /\ \/ last.arg[k][2].symbol = SymbolWhenReached(k)
            \/ /\ last.arg[k][2].symbol \notin DOMAIN last.sm
               /\ \A j \in 1..(k - 1) : last.arg[j][2].symbol # last.arg[k][2].symbol

\* C33 (amended): required fields - an Add or Update batch with an item
\* that lacks a required field fails and changes nothing, for admins and
\* others alike; it fails with MissingField naming the first field, in the
\* order of required_fields, that the first such item lacks when the caller
\* passes the permission and fee checks and that item and the items before
\* it pass the other checks; and a batch whose items carry every required
\* field never fails with MissingField
RequiredFieldsRule ==
    last.op \in {"Add", "Update"} =>
        /\ \A k \in 1..Len(last.arg) :
             MissingAt(k) # {} =>
                 /\ last.res.tag # "Ok"
                 /\ StoreUnchanged
                 /\ (/\ PassedGates
                     /\ \A j \in 1..k : ReachesFieldCheck(j)
                     /\ \A j \in 1..(k - 1) : MissingAt(j) = {})
                    => last.res = Err("MissingField", FirstMissingField(k))
        /\ last.res.tag = "MissingField"
             => \E k \in 1..Len(last.arg) : MissingAt(k) # {}

\* C33 witness: an Add by a stored admin of an item without logo and
\* exponent has just been refused for the logo, the first required field
AdminAddMissingLogo ==
    /\ last.op = "Add"
    /\ CallerWasAdmin
    /\ RequiredFields = <<"Logo", "Exp">>
    /\ Len(last.arg) = 1
    /\ MissingAt(1) = {1, 2}
    /\ last.res = Err("MissingField", "Logo")
    /\ StoreUnchanged

\* C33 (the claim as stated): an Add or Update batch with an item that
\* lacks a required field fails with MissingField
MissingFieldAlwaysReported ==
    last.op \in {"Add", "Update"} =>
        \A k \in 1..Len(last.arg) :
            MissingAt(k) # {} => last.res.tag = "MissingField"

----------------------------------------------------------------------------
(* Properties of the lookup queries (Spec) *)

\* a stored record has the symbol
SymbolStored(symbol) ==
    \E d \in DOMAIN DENOM_MAP : DENOM_MAP[d].metadata.symbol = symbol

\* C34 (the claim as stated): lookup queries - ByDenom and BySymbol return
\* an error if a requested key has no stored record, and otherwise one
\* (denom, metadata) pair of the stored record of each requested key, in the
\* order of the request; neither query changes any state
LookupQueries ==
    /\ last.op = "ByDenom" =>
         IF \E k \in 1..Len(last.arg) : last.arg[k] \notin DOMAIN DENOM_MAP
             THEN last.res.tag # "Ok"
         ELSE /\ last.res.tag = "Ok"
              /\ last.data = [k \in 1..Len(last.arg) |->
                                <<last.arg[k], DENOM_MAP[last.arg[k]].metadata>>]
    /\ last.op = "BySymbol" =>
         IF \E k \in 1..Len(last.arg) : ~SymbolStored(last.arg[k])
             THEN last.res.tag # "Ok"
         ELSE /\ last.res.tag = "Ok"
              /\ Len(last.data) = Len(last.arg)
              /\ \A k \in 1..Len(last.arg) :
                   /\ last.data[k][1] \in DOMAIN DENOM_MAP
                   /\ last.data[k][2] = DENOM_MAP[last.data[k][1]].metadata
                   /\ last.data[k][2].symbol = last.arg[k]
    /\ last.op \in {"ByDenom", "BySymbol"}
         => (StoreUnchanged /\ CONFIG = last.config)

----------------------------------------------------------------------------
(* Properties of the ledger against the chain's supply (HostSpec) *)

\* the handler of the Mint that has just run returned Ok: the invocation
\* succeeded, or failed only when its messages were dispatched
PassedLocalChecks == last.res.tag \in {"Ok", "Dispatch"}

----------------------------------------------------------------------------
(* Frame of the Config (Spec) *)

\* C36: Config frame - Config is changed only by a successful UpdateConfig:
\* every Add, Update and Remove, successful or not, every failing
\* UpdateConfig and every query leaves the Config as it found it, and a
\* successful UpdateConfig leaves both indexes of the catalog as it found
\* them
ConfigFrame ==
    /\ (last.op # "Idle" /\ ~ConfigUpdated) => CONFIG = last.config
    /\ ConfigUpdated => StoreUnchanged

\* C36 witness: with two records stored, the owner's UpdateConfig has just
\* replaced the admin list
ConfigChangedCatalogKept ==
    /\ ConfigUpdated
    /\ CONFIG.admins # last.config.admins
    /\ Cardinality(DOMAIN DENOM_MAP) = 2
    /\ StoreUnchanged

\* what TokenInfo reports as burned, were it asked now
BurnedNow == TOTAL_MINTED - host.supply

\* C37 (the claim as stated): in every state of the deployed ledger the
\* chain's supply of the denom is at most total_minted, so that TokenInfo
\* answers with burned = total_minted - supply; and that difference grows by
\* the amount of each successful Burn and by nothing else
SupplyWithinMinted ==
    /\ ADMIN # "" => host.supply <= TOTAL_MINTED
    /\ last.op = "TokenInfo"
         => (last.res.tag = "Ok" /\ last.data[1].burned = BurnedNow)
    /\ last.op \notin {"Idle", "TokenInfo"}
         => BurnedNow = last.total_minted - last.host.supply
                          + (IF last.op = "Burn" /\ last.res.tag = "Ok"
                             THEN last.arg ELSE 0)

----------------------------------------------------------------------------
(* Soundness of BySymbol (Spec) *)

\* C38 (the claim as stated): BySymbol soundness - each pair that a
\* successful BySymbol returns names a stored denom and carries the symbol
\* that was asked for, so a record whose symbol an Update has changed is no
\* longer returned for its former symbol
BySymbolSound ==
    (last.op = "BySymbol" /\ last.res.tag = "Ok") =>
        \A k \in 1..Len(last.arg) :
            /\ last.data[k][1] \in DOMAIN DENOM_MAP
            /\ last.data[k][2].symbol = last.arg[k]

----------------------------------------------------------------------------
(* Arithmetic of Mint (LedgerSpec) *)

\* C39 (the claim as stated): Mint arithmetic is exact - a Mint is accepted
\* only if the sum, as a number, of its amounts and total_minted fits the
\* integer type; an accepted Mint does not lower total_minted and keeps the
\* sum within a nonzero max_supply
MintArithmeticExact ==
    (last.op = "Mint" /\ last.res.tag = "Ok") =>
        /\ BatchSum + last.total_minted <= UintMax
        /\ TOTAL_MINTED >= last.total_minted
        /\ last.max_supply # 0 => BatchSum + last.total_minted <= last.max_supply

====
